---- MODULE Spec2Model ----
(***************************************************************************)
(* Harvest advisory core of 3musketeers: harvest-status classifier,        *)
(* spoilage-risk engine, crop suitability filter, price-prediction client  *)
(* and the harvest orchestrator, as one state machine per component.       *)
(*                                                                         *)
(* Time is counted in whole hours since the epoch; a date string           *)
(* 'YYYY-MM-DD' is the number of its day (hours \div 24 at UTC midnight).  *)
(***************************************************************************)
EXTENDS Integers, Sequences, FiniteSets, TLC

VARIABLES
    fpc, call, ret,           \* a call of one of the pure functions: position, arguments, result
    \* ---- predictPrice (pricePredictionEngine.js) ----
    ppc,                      \* position of the predictPrice call
    pargs,                    \* its arguments and the device clock / time zone at the call
    attempt,                  \* the loop variable of the retry loop
    lastError,                \* lastError (a message, as a sequence of words)
    pclock,                   \* milliseconds elapsed since the call
    reqStart,                 \* when the request in flight was issued
    backoffEnd,               \* when the backoff timer in progress fires
    requests,                 \* log: the upstream requests issued
    waits,                    \* log: the backoff waits started
    failures,                 \* log: the attempts that failed, with their error
    presult,                  \* what the call returned or threw
    \* ---- harvest orchestrator (harvestOrchestrator.js) and the stores it uses ----
    now,                      \* the device clock, in hours
    userCrops,                \* AsyncStorage 'user-crops': the stored portfolio
    userProfile,              \* AsyncStorage 'user-profile': the phone, or null
    lastRun,                  \* AsyncStorage 'orchestrator-last-run-<id>', per crop id
    predictions,              \* table crop_price_predictions
    riskHistory,              \* table post_harvest_risk_history
    inv,                      \* the invocations of processAllCrops, per slot
    runs,                     \* invocations started so far
    ticks,                    \* clock steps taken so far
    faults,                   \* failures of external calls so far
    lastReturn,               \* log: the latest completed call of processAllCrops
    \* ---- weather engine (weatherEngine.js) ----
    wenv,                     \* the build (engine, API key present) and the current month
    wpc,                      \* position of the getCurrentWeather call
    wcur,                     \* the call in progress: the response and the result built
    weatherCache,             \* AsyncStorage 'weather-cache': the stored text, or null
    lastStored,               \* log: the latest live snapshot that setItem stored
    wlast,                    \* log: the latest completed call of getCurrentWeather
    wcalls                    \* calls started so far

pureVars == <<fpc, call, ret>>
predVars == <<ppc, pargs, attempt, lastError, pclock, reqStart, backoffEnd, requests, waits,
              failures, presult>>
orchVars == <<now, userCrops, userProfile, lastRun, predictions, riskHistory, inv, runs, ticks,
              faults, lastReturn>>
weatherVars == <<wenv, wpc, wcur, weatherCache, lastStored, wlast, wcalls>>
vars == <<pureVars, predVars, orchVars, weatherVars>>

(***************************************************************************)
(* Values standing for JavaScript's null / undefined / invalid             *)
(***************************************************************************)
NoDate == -1000          \* harvestDate undefined / null / ''
BadDate == -999          \* a string new Date() cannot parse (getTime() is NaN)
NullNum == -1000         \* a numeric column that is null
NullStr == "null"        \* a text column that is null / a field that is undefined

Max(a, b) == IF a >= b THEN a ELSE b
Min(a, b) == IF a <= b THEN a ELSE b
Abs(a) == IF a < 0 THEN -a ELSE a

(***************************************************************************)
(* Date helpers (harvestOrchestrator.js 29-38, spoilageRiskEngine 716-724) *)
(***************************************************************************)
HoursPerDay == 24

BaseDay == 100                \* the day the model's behaviours start on

\* new Date().toISOString().split('T')[0]: the UTC date of the clock
todayStr(clock) == clock \div HoursPerDay

\* new Date('YYYY-MM-DD').getTime(): UTC midnight of that day
ParseDate(d) == d * HoursPerDay

\* Date.prototype.setHours(0,0,0,0): midnight of the local day holding t
SetHoursZero(t, tzOff) == ((t + tzOff) \div HoursPerDay) * HoursPerDay - tzOff

\* Math.round(n / d) for d > 0: halves round up
MathRoundDiv(n, d) == (2 * n + d) \div (2 * d)

\* variant: the distance between the two days, without its sign
daysBetweenAbs(a, b, tzOff) ==
    IF a \in {NoDate, BadDate} \/ b \in {NoDate, BadDate} THEN 0
    ELSE Abs(MathRoundDiv(SetHoursZero(ParseDate(a), tzOff)
                              - SetHoursZero(ParseDate(b), tzOff), HoursPerDay))

daysBetween(a, b, tzOff) ==
    IF a \in {NoDate, BadDate} \/ b \in {NoDate, BadDate} THEN 0
    ELSE MathRoundDiv(SetHoursZero(ParseDate(a), tzOff) - SetHoursZero(ParseDate(b), tzOff),
                      HoursPerDay)

(***************************************************************************)
(* STEP 1: harvest status detection (harvestOrchestrator.js 50-61)         *)
(***************************************************************************)
\* variant: the lower edge of ready_for_harvest moved from -7 to -6
detectHarvestStatusOpenEdge(crop, clock, tzOff) ==
    LET today == todayStr(clock)
        harvestDate == crop.harvestDate
        daysToHarvest == daysBetween(harvestDate, today, tzOff)
    IN  IF harvestDate = NoDate THEN "growing"
        ELSE IF daysToHarvest > 7 THEN "growing"
        ELSE IF daysToHarvest > 0 /\ daysToHarvest <= 7 THEN "approaching_harvest"
        ELSE IF daysToHarvest > -7 /\ daysToHarvest <= 0 THEN "ready_for_harvest"
        ELSE "post_harvest"

detectHarvestStatus(crop, clock, tzOff) ==
    LET today == todayStr(clock)
        harvestDate == crop.harvestDate
        daysToHarvest == daysBetween(harvestDate, today, tzOff)
    IN  IF harvestDate = NoDate THEN "growing"
        ELSE IF daysToHarvest > 7 THEN "growing"
        ELSE IF daysToHarvest > 0 /\ daysToHarvest <= 7 THEN "approaching_harvest"
        ELSE IF daysToHarvest >= -7 /\ daysToHarvest <= 0 THEN "ready_for_harvest"
        ELSE "post_harvest"

(***************************************************************************)
(* Spoilage risk engine (spoilageRiskEngine.js, calculateRisk)             *)
(***************************************************************************)
\* a row of the crops table with its storage columns (postHarvestSupabase.js 17-27)
RefRow(id, name, tmin, tmax, moisture, shelf, storage) ==
    [id |-> id, crop_name |-> name, optimal_storage_temp_min |-> tmin,
     optimal_storage_temp_max |-> tmax, moisture_sensitivity |-> moisture,
     shelf_life_days |-> shelf, storage_type |-> storage]

NoWeather == [ok |-> FALSE, temperature |-> 0, humidity |-> 0, rainfall |-> 0]

StorageTypes == {"Dry", "Cold", "Ventilated", "Normal"}

\* STORAGE_RECOMMENDATIONS[storageType] || STORAGE_RECOMMENDATIONS.Normal (the key of the row)
getStorageRecommendation(storageType) ==
    IF storageType \in StorageTypes THEN storageType ELSE "Normal"

\* variant: no upper limit
clampBelowOnly(val, lo, hi) == Max(val, lo)

clamp(val, lo, hi) == Min(Max(val, lo), hi)

\* crop.shelf_life_days || 30
ShelfLifeOr30(crop) ==
    IF crop.shelf_life_days = NullNum \/ crop.shelf_life_days = 0 THEN 30 ELSE crop.shelf_life_days

TemperatureFactor(crop, weather) ==
    LET currentTemp == IF weather.ok THEN weather.temperature ELSE 25
        tempMin == IF crop.optimal_storage_temp_min = NullNum THEN 10 ELSE crop.optimal_storage_temp_min
        tempMax == IF crop.optimal_storage_temp_max = NullNum THEN 30 ELSE crop.optimal_storage_temp_max
    IN  IF currentTemp < tempMin \/ currentTemp > tempMax
        THEN <<[factor |-> "Temperature", score |-> 30]>>
        ELSE <<[factor |-> "Temperature", score |-> 0]>>

\* variant: the humidity threshold is inclusive
HumidityFactorInclusive(crop, weather) ==
    LET currentHumidity == IF weather.ok THEN weather.humidity ELSE 50
        moistureSensitivity == IF crop.moisture_sensitivity \in {NullStr, ""} THEN "Medium"
                               ELSE crop.moisture_sensitivity
        humidityScore == IF moistureSensitivity = "High" THEN 25
                         ELSE IF moistureSensitivity = "Medium" THEN 15 ELSE 5
    IN  IF currentHumidity >= 75
        THEN <<[factor |-> "Humidity", score |-> humidityScore]>>
        ELSE <<[factor |-> "Humidity", score |-> 0]>>

HumidityFactor(crop, weather) ==
    LET currentHumidity == IF weather.ok THEN weather.humidity ELSE 50
        moistureSensitivity == IF crop.moisture_sensitivity \in {NullStr, ""} THEN "Medium"
                               ELSE crop.moisture_sensitivity
        humidityScore == IF moistureSensitivity = "High" THEN 25
                         ELSE IF moistureSensitivity = "Medium" THEN 15 ELSE 5
    IN  IF currentHumidity > 75
        THEN <<[factor |-> "Humidity", score |-> humidityScore]>>
        ELSE <<[factor |-> "Humidity", score |-> 0]>>

\* shelfLifeUsedPct > 70 with shelfLifeUsedPct = (daysSinceHarvest / shelfLifeDays) * 100
ShelfLifeFactor(crop, daysSinceHarvest) ==
    LET shelfLifeDays == ShelfLifeOr30(crop)
    IN  IF daysSinceHarvest > shelfLifeDays
        THEN <<[factor |-> "Shelf Life", score |-> 40]>>
        ELSE IF daysSinceHarvest * 100 > 70 * shelfLifeDays
        THEN <<[factor |-> "Shelf Life", score |-> 20]>>
        ELSE <<[factor |-> "Shelf Life", score |-> 0]>>

RainfallFactor(weather) ==
    LET rainfall == IF weather.ok THEN weather.rainfall ELSE 0
    IN  IF rainfall > 60 THEN <<[factor |-> "Rainfall", score |-> 10]>> ELSE <<>>

RECURSIVE SumScores(_)
SumScores(breakdown) ==
    IF breakdown = <<>> THEN 0 ELSE Head(breakdown).score + SumScores(Tail(breakdown))

\* riskPercentage <= 30 ? 'Low' : riskPercentage <= 60 ? 'Moderate' : 'High'
SpoilageLevel(riskPercentage) ==
    IF riskPercentage <= 30 THEN "Low"
    ELSE IF riskPercentage <= 60 THEN "Moderate" ELSE "High"

\* the breakdown rows pushed by the four scoring blocks, in order
ScoreBreakdown(crop, weather, daysSinceHarvest) ==
    TemperatureFactor(crop, weather) \o HumidityFactor(crop, weather)
        \o ShelfLifeFactor(crop, daysSinceHarvest) \o RainfallFactor(weather)

\* variant: the scoring factors also run for a harvest date in the future
calculateRiskScoresPreHarvest(crop, harvestDate, weather, clock, tzOff) ==
    LET today == todayStr(clock)
        daysSinceHarvest == daysBetween(today, harvestDate, tzOff)
        breakdown == ScoreBreakdown(crop, weather, daysSinceHarvest)
        riskPercentage == clamp(SumScores(breakdown), 0, 100)
    IN  [riskPercentage |-> riskPercentage,
         riskLevel |-> IF daysSinceHarvest < 0 THEN "Pre-Harvest"
                       ELSE SpoilageLevel(riskPercentage),
         isPreHarvest |-> daysSinceHarvest < 0,
         daysToHarvest |-> IF daysSinceHarvest < 0 THEN Abs(daysSinceHarvest) ELSE 0,
         daysSinceHarvest |-> Max(0, daysSinceHarvest),
         shelfLifeRemaining |-> Max(0, ShelfLifeOr30(crop) - Max(0, daysSinceHarvest)),
         breakdown |-> breakdown,
         storageRecommendation |-> getStorageRecommendation(crop.storage_type)]

calculateRisk(crop, harvestDate, weather, clock, tzOff) ==
    LET today == todayStr(clock)
        daysSinceHarvest == daysBetween(today, harvestDate, tzOff)
        breakdown == ScoreBreakdown(crop, weather, daysSinceHarvest)
        riskScore == SumScores(breakdown)
        riskPercentage == clamp(riskScore, 0, 100)
    IN  IF daysSinceHarvest < 0
        THEN [riskPercentage |-> 0, riskLevel |-> "Pre-Harvest", isPreHarvest |-> TRUE,
              daysToHarvest |-> Abs(daysSinceHarvest), daysSinceHarvest |-> 0,
              shelfLifeRemaining |-> ShelfLifeOr30(crop), breakdown |-> <<>>,
              storageRecommendation |-> getStorageRecommendation(crop.storage_type)]
        ELSE [riskPercentage |-> riskPercentage, riskLevel |-> SpoilageLevel(riskPercentage),
              isPreHarvest |-> FALSE, daysToHarvest |-> 0,
              daysSinceHarvest |-> daysSinceHarvest,
              shelfLifeRemaining |-> Max(0, ShelfLifeOr30(crop) - daysSinceHarvest),
              breakdown |-> breakdown,
              storageRecommendation |-> getStorageRecommendation(crop.storage_type)]

(***************************************************************************)
(* STEP 2: combined weather + market risk (harvestOrchestrator.js 76-111)  *)
(* Risk fractions are kept as hundredths: totalRisk 1.5 is 150.            *)
(***************************************************************************)
DefaultWeather == [ok |-> TRUE, temperature |-> 25, humidity |-> 50, rainfall |-> 0]

\* variant: a total risk of exactly 1.5 is classified High
calculateCombinedRiskOpenModerate(supabaseCrop, harvestDate, weather, clock, tzOff) ==
    LET spoilageResult == calculateRisk(supabaseCrop, harvestDate,
                                        IF weather.ok THEN weather ELSE DefaultWeather,
                                        clock, tzOff)
        weatherRiskScore == spoilageResult.riskPercentage
        daysAfterHarvest == daysBetween(todayStr(clock), harvestDate, tzOff)
        shelfLife == ShelfLifeOr30(supabaseCrop)
        marketRiskScore == IF Max(0, daysAfterHarvest) > shelfLife THEN 80
                           ELSE IF Max(0, daysAfterHarvest) * 10 > 7 * shelfLife THEN 40
                           ELSE 10
        totalRisk == weatherRiskScore + marketRiskScore
        riskLevel == IF totalRisk < 100 THEN "Low"
                     ELSE IF totalRisk < 150 THEN "Moderate" ELSE "High"
    IN  [weatherRiskScore |-> weatherRiskScore, marketRiskScore |-> marketRiskScore,
         totalRisk |-> totalRisk, riskLevel |-> riskLevel, spoilageResult |-> spoilageResult]

calculateCombinedRisk(supabaseCrop, harvestDate, weather, clock, tzOff) ==
    LET spoilageResult == calculateRisk(supabaseCrop, harvestDate,
                                        IF weather.ok THEN weather ELSE DefaultWeather,
                                        clock, tzOff)
        weatherRiskScore == spoilageResult.riskPercentage
        daysAfterHarvest == daysBetween(todayStr(clock), harvestDate, tzOff)
        shelfLife == ShelfLifeOr30(supabaseCrop)
        \* shelfUsage = max(0, daysAfterHarvest) / shelfLife, compared with 1 and 0.7
        marketRiskScore == IF Max(0, daysAfterHarvest) > shelfLife THEN 80
                           ELSE IF Max(0, daysAfterHarvest) * 10 > 7 * shelfLife THEN 40
                           ELSE 10
        totalRisk == weatherRiskScore + marketRiskScore
        riskLevel == IF totalRisk < 100 THEN "Low"
                     ELSE IF totalRisk <= 150 THEN "Moderate" ELSE "High"
    IN  [weatherRiskScore |-> weatherRiskScore, marketRiskScore |-> marketRiskScore,
         totalRisk |-> totalRisk, riskLevel |-> riskLevel, spoilageResult |-> spoilageResult]

(***************************************************************************)
(* STEP 3: market advisory (harvestOrchestrator.js 124-159)                *)
(***************************************************************************)
Advisory(action, message, urgency, days) ==
    [action |-> action, message |-> message, urgency |-> urgency, days |-> days]

NoAdvisory == Advisory("undefined", "", "", 0)

\* variant: a high risk always means selling immediately
generateAdvisoryIgnoresTrend(riskLevel, priceTrend) ==
    IF riskLevel = "High"
    THEN Advisory("SELL_IMMEDIATELY", "High spoilage risk and falling prices", "critical", 0)
    ELSE IF riskLevel = "Low" /\ priceTrend = "rising"
    THEN Advisory("HOLD", "Low spoilage risk and prices are rising", "low", 0)
    ELSE IF riskLevel = "Low"
    THEN Advisory("HOLD", "Storage conditions are good", "low", 0)
    ELSE Advisory("MONITOR", "Monitor conditions daily", "medium", 0)

\* variant: a moderate risk is advised like a high one
generateAdvisorySellsOnModerate(riskLevel, priceTrend) ==
    IF riskLevel \in {"High", "Moderate"} /\ priceTrend = "falling"
    THEN Advisory("SELL_IMMEDIATELY", "High spoilage risk and falling prices", "critical", 0)
    ELSE IF riskLevel \in {"High", "Moderate"}
    THEN Advisory("SELL_SOON", "High spoilage risk", "high", 0)
    ELSE IF riskLevel = "Low" /\ priceTrend = "rising"
    THEN Advisory("HOLD", "Low spoilage risk and prices are rising", "low", 0)
    ELSE IF riskLevel = "Low"
    THEN Advisory("HOLD", "Storage conditions are good", "low", 0)
    ELSE Advisory("MONITOR", "Monitor conditions daily", "medium", 0)

generateAdvisory(riskLevel, priceTrend) ==
    IF riskLevel = "High" /\ priceTrend = "falling"
    THEN Advisory("SELL_IMMEDIATELY", "High spoilage risk and falling prices", "critical", 0)
    ELSE IF riskLevel = "High"
    THEN Advisory("SELL_SOON", "High spoilage risk", "high", 0)
    ELSE IF riskLevel = "Low" /\ priceTrend = "rising"
    THEN Advisory("HOLD", "Low spoilage risk and prices are rising", "low", 0)
    ELSE IF riskLevel = "Low"
    THEN Advisory("HOLD", "Storage conditions are good", "low", 0)
    ELSE Advisory("MONITOR", "Monitor conditions daily", "medium", 0)

\* lines 300-307: the advisory of a crop approaching harvest, the day count interpolated
PrepareAdvisory(crop, clock, tzOff) ==
    Advisory("PREPARE", "Harvest approaching in N days. Prepare storage.", "info",
             daysBetween(crop.harvestDate, todayStr(clock), tzOff))

(***************************************************************************)
(* Crop suitability filter (cropFilterEngine.js)                           *)
(***************************************************************************)
NullMonths == <<0>>           \* ideal_sowing_months is null (not an array)
NullTags == <<NullStr>>       \* suitable_soil_types / region_tags is null

\* String.prototype.trim().toLowerCase() on the strings the model uses
TrimLower(s) ==
    CASE s \in {"Loamy", " loamy ", "LOAMY"} -> "loamy"
      [] s \in {"Clay", "clay "} -> "clay"
      [] s \in {"North", " north"} -> "north"
      [] s \in {"South"} -> "south"
      [] OTHER -> s

SeqHas(seq, x) == \E i \in 1..Len(seq) : seq[i] = x
SeqHasNorm(seq, x) == \E i \in 1..Len(seq) : TrimLower(seq[i]) = x

\* scoreCrop: the score is the fraction num / den (den = the crop's temperature range)
scoreCrop(crop, farm) ==
    LET soilMatch == /\ crop.suitable_soil_types # NullTags
                     /\ farm.soil_type # ""
                     /\ SeqHasNorm(crop.suitable_soil_types, TrimLower(farm.soil_type))
        seasonMatch == /\ crop.ideal_sowing_months # NullMonths
                       /\ farm.current_month # 0
                       /\ SeqHas(crop.ideal_sowing_months, farm.current_month)
        range == IF crop.max_temperature - crop.min_temperature = 0 THEN 1
                 ELSE crop.max_temperature - crop.min_temperature
        \* 20 * (1 - |t - mid| / (range / 2)) = 20 * (range - |2t - min - max|) / range
        tempNum == IF farm.temperature = NullNum THEN 0
                   ELSE Max(0, 20 * (range - Abs(2 * farm.temperature
                                     - crop.min_temperature - crop.max_temperature)))
        regionMatch == /\ crop.region_tags # NullTags
                       /\ farm.region # ""
                       /\ SeqHasNorm(crop.region_tags, TrimLower(farm.region))
        points == (IF soilMatch THEN 40 ELSE 0) + (IF seasonMatch THEN 30 ELSE 0)
                  + (IF regionMatch THEN 10 ELSE 0)
    IN  [score |-> [num |-> points * range + tempNum, den |-> range],
         soilMatch |-> soilMatch, seasonMatch |-> seasonMatch]

\* b._score - a._score > 0 : b sorts before a
ScoreGreater(b, a) == b.num * a.den > a.num * b.den

WithScore(crop, farm) ==
    LET r == scoreCrop(crop, farm)
    IN  [crop |-> crop, _score |-> r.score, _soilMatch |-> r.soilMatch,
         _seasonMatch |-> r.seasonMatch]

\* Array.prototype.sort((a, b) => b._score - a._score): stable, descending by score
RECURSIVE InsertByScore(_, _)
InsertByScore(sorted, x) ==
    IF sorted = <<>> THEN <<x>>
    ELSE IF ScoreGreater(x._score, Head(sorted)._score) THEN <<x>> \o sorted
    ELSE <<Head(sorted)>> \o InsertByScore(Tail(sorted), x)

RECURSIVE SortByScore(_)
SortByScore(seq) ==
    IF seq = <<>> THEN <<>>
    ELSE InsertByScore(SortByScore(SubSeq(seq, 1, Len(seq) - 1)), seq[Len(seq)])

Slice(seq, n) == SubSeq(seq, 1, Min(n, Len(seq)))

StrictKeep(crop, farm) ==
    /\ ~(crop.min_area_required \notin {NullNum, 0}
         /\ farm.area_in_hectares < crop.min_area_required)
    /\ ~(farm.temperature # NullNum
         /\ (farm.temperature < crop.min_temperature \/ farm.temperature > crop.max_temperature))
    /\ ~(farm.current_month # 0 /\ crop.ideal_sowing_months # NullMonths
         /\ ~SeqHas(crop.ideal_sowing_months, farm.current_month))

applyStrictFilter(crops, farm) ==
    LET keep(c) == StrictKeep(c, farm)
        kept == SelectSeq(crops, keep)
        scored == [i \in 1..Len(kept) |-> WithScore(kept[i], farm)]
    IN  Slice(SortByScore(scored), 5)

\* variant: the fallback keeps the area constraint
FallbackKeepChecksArea(crop, farm) ==
    /\ ~(crop.min_area_required \notin {NullNum, 0}
         /\ farm.area_in_hectares < crop.min_area_required)
    /\ IF crop.ideal_sowing_months # NullMonths /\ farm.current_month # 0
       THEN SeqHas(crop.ideal_sowing_months, farm.current_month)
       ELSE TRUE

FallbackKeep(crop, farm) ==
    IF crop.ideal_sowing_months # NullMonths /\ farm.current_month # 0
    THEN SeqHas(crop.ideal_sowing_months, farm.current_month)
    ELSE TRUE

applyFallbackFilter(crops, farm) ==
    LET keep(c) == FallbackKeep(c, farm)
        kept == SelectSeq(crops, keep)
        scored == [i \in 1..Len(kept) |-> WithScore(kept[i], farm)]
    IN  Slice(SortByScore(scored), 3)

\* new Date().getMonth() + 1 of a clock whose year has twelve 30-day months
ClockMonth(clock) == ((todayStr(clock) \div 30) % 12) + 1

\* the farm context filterCropsForFarm builds from farmData (lines 143-149)
NormaliseFarm(farmData, clock) ==
    [soil_type |-> IF farmData.soil_type = NullStr THEN "" ELSE farmData.soil_type,
     area_in_hectares |-> IF farmData.area_in_hectares = NullNum THEN 0
                          ELSE farmData.area_in_hectares,
     temperature |-> farmData.temperature,
     current_month |-> IF farmData.current_month = NullNum THEN ClockMonth(clock)
                       ELSE farmData.current_month,
     region |-> IF farmData.region = NullStr THEN "" ELSE farmData.region]

\* variant: the fallback is also used when a single row passes the strict filter
filterCropsForFarmLoneStrict(allCrops, farmData, clock) ==
    LET farm == NormaliseFarm(farmData, clock)
        strict == applyStrictFilter(allCrops, farm)
        fallback == applyFallbackFilter(allCrops, farm)
    IN  IF allCrops = <<>> THEN [crops |-> <<>>, usedFallback |-> FALSE]
        ELSE IF Len(strict) > 1 THEN [crops |-> strict, usedFallback |-> FALSE]
        ELSE [crops |-> fallback, usedFallback |-> TRUE]

filterCropsForFarm(allCrops, farmData, clock) ==
    LET farm == NormaliseFarm(farmData, clock)
        strict == applyStrictFilter(allCrops, farm)
        fallback == applyFallbackFilter(allCrops, farm)
    IN  IF allCrops = <<>> THEN [crops |-> <<>>, usedFallback |-> FALSE]
        ELSE IF Len(strict) > 0 THEN [crops |-> strict, usedFallback |-> FALSE]
        ELSE [crops |-> fallback, usedFallback |-> TRUE]

(***************************************************************************)
(* Sowing date (cropFilterEngine.js 174-196). A calendar date is a record   *)
(* [year, month, day]; an instant is a UTC date with the hour of the day;  *)
(* the device's zone is tzOff whole hours east of UTC.                      *)
(***************************************************************************)
CalDate(y, m, d) == [year |-> y, month |-> m, day |-> d]

DaysInMonth(y, m) ==
    IF m \in {4, 6, 9, 11} THEN 30
    ELSE IF m = 2 THEN (IF y % 4 = 0 /\ (y % 100 # 0 \/ y % 400 = 0) THEN 29 ELSE 28)
    ELSE 31

PrevDay(date) ==
    IF date.day > 1 THEN CalDate(date.year, date.month, date.day - 1)
    ELSE IF date.month > 1
    THEN CalDate(date.year, date.month - 1, DaysInMonth(date.year, date.month - 1))
    ELSE CalDate(date.year - 1, 12, 31)

NextDay(date) ==
    IF date.day < DaysInMonth(date.year, date.month)
    THEN CalDate(date.year, date.month, date.day + 1)
    ELSE IF date.month < 12 THEN CalDate(date.year, date.month + 1, 1)
    ELSE CalDate(date.year + 1, 1, 1)

\* the local calendar date of an instant (getFullYear, getMonth, getDate)
LocalDate(instant, tzOff) ==
    IF instant.hour + tzOff >= HoursPerDay THEN NextDay(instant.date)
    ELSE IF instant.hour + tzOff < 0 THEN PrevDay(instant.date)
    ELSE instant.date

\* new Date(y, m - 1, 1).toISOString().split('T')[0]: the UTC date of local midnight
LocalMidnightIsoDate(date, tzOff) == IF tzOff > 0 THEN PrevDay(date) ELSE date

RECURSIVE MinOfSeq(_)
MinOfSeq(seq) ==
    IF Len(seq) = 1 THEN seq[1] ELSE Min(Head(seq), MinOfSeq(Tail(seq)))

computeSowingDate(crop, currentMonth, instant, tzOff) ==
    LET today == instant.date                       \* today.toISOString().split('T')[0]
        months == crop.ideal_sowing_months
        futureMths == [k \in 1..Len(months) |->
                         IF months[k] < currentMonth THEN months[k] + 12 ELSE months[k]]
        nextNormMonth == MinOfSeq(futureMths)       \* sort((a, b) => a - b)[0]
        actualMonth == ((nextNormMonth - 1) % 12) + 1
        yearOffset == IF nextNormMonth > 12 THEN 1 ELSE 0
        sowDate == CalDate(LocalDate(instant, tzOff).year + yearOffset, actualMonth, 1)
    IN  IF months = NullMonths \/ months = <<>> THEN today
        ELSE IF SeqHas(months, currentMonth) THEN today
        ELSE LocalMidnightIsoDate(sowDate, tzOff)

(***************************************************************************)
(* Weather engine (weatherEngine.js, getCurrentWeather), in its Google      *)
(* Weather build and its Tomorrow.io build. A snapshot keeps temperature,   *)
(* humidity, rainfall and source; upstream readings and the rainfall of a   *)
(* snapshot are in tenths of their unit.                                    *)
(***************************************************************************)
Engines == {"google-weather", "tomorrow.io"}
Snapshot(t, h, r, s) == [temperature |-> t, humidity |-> h, rainfall |-> r, source |-> s]
NoSnapshot == Snapshot(NullNum, NullNum, NullNum, NullStr)
NoValues == [temperature |-> NullNum, humidity |-> NullNum, rain |-> NullNum]

\* Math.round of a reading given in tenths
MathRound(x) == (x + 5) \div 10
\* v ?? 0
OrZero(v) == IF v = NullNum THEN 0 ELSE v

offlineFallback(month) ==
    IF month >= 12 \/ month <= 2 THEN Snapshot(15, 50, 0, "offline")
    ELSE IF month >= 3 /\ month <= 5 THEN Snapshot(36, 35, 0, "offline")
    ELSE IF month >= 6 /\ month <= 9 THEN Snapshot(30, 80, 400, "offline")
    ELSE Snapshot(28, 60, 0, "offline")

\* the result object built from the current conditions of an ok response
LiveSnapshot(engine, values) ==
    Snapshot(MathRound(OrZero(values.temperature)), MathRound(OrZero(values.humidity)),
             MathRound(OrZero(values.rain)), engine)

\* JSON.stringify of a result and JSON.parse of the stored text
JsonStringify(result) == [json |-> result]
JsonParse(text) == text.json
\* getItem of a key that is not stored gives null
NoItem == [json |-> NoSnapshot]

\* current conditions in the body of a response; a field may be missing
Readings ==
    {[temperature |-> 254, humidity |-> 616, rain |-> 0],
     [temperature |-> 315, humidity |-> NullNum, rain |-> 126],
     [temperature |-> NullNum, humidity |-> 805, rain |-> 4]}

\* what fetch and response.json() give: an ok response with its current values
\* (the Tomorrow.io body may carry no timeline: current is falsy), a response that
\* is not ok, or a rejection
Response(sent, rejected, ok, current, values) ==
    [sent |-> sent, rejected |-> rejected, ok |-> ok, current |-> current, values |-> values]
Responses(engine) ==
    {Response(TRUE, FALSE, TRUE, TRUE, v) : v \in Readings}
    \cup (IF engine = "tomorrow.io"
          THEN {Response(TRUE, FALSE, TRUE, FALSE, NoValues)} ELSE {})
    \cup {Response(TRUE, FALSE, FALSE, FALSE, NoValues),
          Response(TRUE, TRUE, FALSE, FALSE, NoValues)}

NoResponse == Response(FALSE, FALSE, FALSE, FALSE, NoValues)
NoWeatherCall ==
    [result |-> NoSnapshot, response |-> NoResponse, stored |-> NoSnapshot,
     cache |-> NoItem, setItemFailed |-> FALSE, getItemFailed |-> FALSE]
WeatherIdleCall == [response |-> NoResponse, result |-> NoSnapshot, stored |-> NoSnapshot]
MaxWeatherCalls == 3

WeatherIdle ==
    /\ wenv = <<>> /\ wpc = "idle" /\ wcur = WeatherIdleCall /\ weatherCache = NoItem
    /\ lastStored = NoSnapshot /\ wlast = NoWeatherCall /\ wcalls = 0

WeatherStart ==
    /\ wenv \in [engine : Engines, apiKey : BOOLEAN, month : 1..12]
    /\ wpc = "idle" /\ wcur = WeatherIdleCall /\ weatherCache = NoItem
    /\ lastStored = NoSnapshot /\ wlast = NoWeatherCall /\ wcalls = 0

\* the call returns: the caller gets result; cache is what the store holds then
WeatherReturn(result, cache, setItemFailed, getItemFailed) ==
    /\ wlast' = [result |-> result, response |-> wcur.response, stored |-> wcur.stored,
                 cache |-> cache,
                 setItemFailed |-> setItemFailed, getItemFailed |-> getItemFailed]
    /\ wcur' = WeatherIdleCall
    /\ wpc' = "idle"

\* getCurrentWeather(region, farmCoords) is called: with an API key the request is sent
GetCurrentWeather ==
    /\ wpc = "idle" /\ wcalls < MaxWeatherCalls
    /\ wcalls' = wcalls + 1
    /\ wcur' = [WeatherIdleCall EXCEPT !.stored = lastStored]
    /\ wpc' = IF wenv.apiKey THEN "fetch" ELSE "getItem"
    /\ UNCHANGED <<wenv, weatherCache, lastStored, wlast>>

\* fetch and response.json() settle: an ok response with current values builds the result
FetchDone ==
    /\ wpc = "fetch"
    /\ \E resp \in Responses(wenv.engine) :
        IF ~resp.rejected /\ resp.ok /\ resp.current
        THEN /\ wcur' = [wcur EXCEPT !.response = resp,
                                     !.result = LiveSnapshot(wenv.engine, resp.values)]
             /\ wpc' = "setItem"
        ELSE /\ wcur' = [wcur EXCEPT !.response = resp]
             /\ wpc' = "getItem"
    /\ UNCHANGED <<wenv, weatherCache, lastStored, wlast, wcalls>>

\* AsyncStorage.setItem('weather-cache', ...) settles; its rejection is caught by the
\* catch around the request
SetItemDone ==
    /\ wpc = "setItem"
    /\ \E rejected \in BOOLEAN :
        IF rejected
        THEN /\ wpc' = "getItem"
             /\ wcur' = [wcur EXCEPT !.result = NoSnapshot]
             /\ UNCHANGED <<weatherCache, lastStored, wlast>>
        ELSE /\ weatherCache' = JsonStringify(wcur.result)
             /\ lastStored' = wcur.result
             /\ WeatherReturn(wcur.result, JsonStringify(wcur.result), FALSE, FALSE)
    /\ UNCHANGED <<wenv, wcalls>>

\* AsyncStorage.getItem('weather-cache') settles
GetItemDone ==
    /\ wpc = "getItem"
    /\ \E rejected \in BOOLEAN :
        LET setItemFailed == wcur.response.ok /\ wcur.response.current
        IN IF ~rejected /\ weatherCache # NoItem
           THEN WeatherReturn([JsonParse(weatherCache) EXCEPT !.source = "cached"],
                              weatherCache, setItemFailed, FALSE)
           ELSE WeatherReturn(offlineFallback(wenv.month), weatherCache, setItemFailed, rejected)
    /\ UNCHANGED <<wenv, weatherCache, lastStored, wcalls>>

\* handleLogout (App.jsx 35-41) removes the weather cache
Logout ==
    /\ wpc = "idle" /\ weatherCache # NoItem
    /\ weatherCache' = NoItem
    /\ lastStored' = NoSnapshot
    /\ UNCHANGED <<wenv, wpc, wcur, wlast, wcalls>>

NextWeather ==
    /\ \/ GetCurrentWeather
       \/ FetchDone
       \/ SetItemDone
       \/ GetItemDone
       \/ Logout
    /\ UNCHANGED <<pureVars, predVars, orchVars>>

(***************************************************************************)
(* Price prediction client (pricePredictionEngine.js, predictPrice)        *)
(***************************************************************************)
TIMEOUT_MS == 15000
MAX_RETRIES == 2
TickMs == 5000                \* the longest step of the millisecond clock

NoError == <<>>

\* String.prototype.includes on messages kept as sequences of words
Includes(msg, pat) ==
    \E i \in 1..(Len(msg) - Len(pat) + 1) : SubSeq(msg, i, i + Len(pat) - 1) = pat

MsgMissingCropId == <<"Missing", "crop", "ID">>
MsgMissingTargetDate == <<"Missing", "target", "date">>
MsgDateMustBe == <<"Target", "date", "must", "be", "today", "or", "in", "the", "future">>
MsgInvalidJson == <<"Invalid", "JSON", "response", "from", "prediction", "API">>
MsgMissingPrice == <<"Missing", "or", "invalid", "predicted_price", "in", "response">>
MsgTimeout == <<"Request", "timeout", "server", "took", "too", "long">>
MsgNetwork == <<"Network", "request", "failed">>
MsgNoBody == <<"No", "response", "body">>

StatusText(status) ==
    CASE status = 429 -> "(429):" [] status = 500 -> "(500):" [] status = 503 -> "(503):"
      [] status = 404 -> "(404):" [] OTHER -> "(status):"

\* `API Error (${response.status}): ${errorBody}`
MsgApiError(status, errorBody) == <<"API", "Error", StatusText(status)>> \o errorBody

\* Number(x) of a JSON value: [nan, v]
ToNumber(x) ==
    CASE x.t = "number" -> [nan |-> FALSE, v |-> x.v]
      [] x.t = "string" -> IF x.numeric THEN [nan |-> FALSE, v |-> x.v] ELSE [nan |-> TRUE, v |-> 0]
      [] x.t = "boolean" -> [nan |-> FALSE, v |-> IF x.b THEN 1 ELSE 0]
      [] OTHER -> [nan |-> FALSE, v |-> 0]          \* Number(null) is 0

JsNull == [t |-> "null"]
JsNum(n) == [t |-> "number", v |-> n]

\* data.predicted_price == null || isNaN(data.predicted_price)
PriceInvalid(data) == data.predicted_price.t = "null" \/ ToNumber(data.predicted_price).nan

\* lines 44-51: both dates are moved to local midnight and compared
TargetBeforeToday(targetDate, clock, tzOff) ==
    /\ targetDate # BadDate                      \* NaN < today is false
    /\ SetHoursZero(ParseDate(targetDate), tzOff) < SetHoursZero(clock, tzOff)

\* variant: the target date is not compared with today
ValidationErrorNoDateCheck(a) ==
    IF a.cropId \in {NullStr, ""} THEN MsgMissingCropId
    ELSE IF a.targetDate = NoDate THEN MsgMissingTargetDate
    ELSE NoError

\* lines 41-51: the error thrown before the loop, or NoError
ValidationError(a) ==
    IF a.cropId \in {NullStr, ""} THEN MsgMissingCropId
    ELSE IF a.targetDate = NoDate THEN MsgMissingTargetDate
    ELSE IF TargetBeforeToday(a.targetDate, a.clock, a.tzOff) THEN MsgDateMustBe
    ELSE NoError

\* lines 92-100: the value returned for a valid body
PredictionOf(data, a) ==
    [crop_id |-> IF data.crop_id \in {NullStr, ""} THEN a.cropId ELSE data.crop_id,
     target_date |-> IF data.target_date = NoDate THEN a.targetDate ELSE data.target_date,
     predicted_price |-> ToNumber(data.predicted_price).v,
     confidence |-> IF data.confidence.t = "null" THEN 0 ELSE ToNumber(data.confidence).v,
     trend |-> IF data.trend \in {"rising", "falling", "stable"} THEN data.trend ELSE "stable"]

\* line 106: validation errors are not retried
NotRetried(msg) == Includes(msg, <<"Missing">>) \/ Includes(msg, <<"must", "be">>)

\* fetchWithTimeout(...) is called: one upstream request is issued
IssueRequest(n) ==
    /\ ppc' = "request"
    /\ attempt' = n
    /\ reqStart' = pclock
    /\ requests' = Append(requests, [attempt |-> n, at |-> pclock])

\* variant: the backoff also follows the last attempt
CatchAlwaysWaits(msg) ==
    /\ lastError' = msg
    /\ failures' = Append(failures, [attempt |-> attempt, error |-> msg, at |-> pclock])
    /\ UNCHANGED <<pargs, attempt, pclock, reqStart, requests>>
    /\ IF NotRetried(msg)
       THEN /\ ppc' = "thrown" /\ presult' = msg
            /\ UNCHANGED <<backoffEnd, waits>>
       ELSE IF attempt <= MAX_RETRIES
       THEN /\ ppc' = "backoff"
            /\ backoffEnd' = pclock + 1000 * attempt
            /\ waits' = Append(waits, [ms |-> 1000 * attempt, after |-> attempt, at |-> pclock])
            /\ UNCHANGED presult
       ELSE /\ ppc' = "thrown" /\ presult' = msg
            /\ UNCHANGED <<backoffEnd, waits>>

\* the catch block (lines 101-114) and the throw after the loop (line 117)
Catch(msg) ==
    /\ lastError' = msg
    /\ failures' = Append(failures, [attempt |-> attempt, error |-> msg, at |-> pclock])
    /\ UNCHANGED <<pargs, attempt, pclock, reqStart, requests>>
    /\ IF NotRetried(msg)
       THEN /\ ppc' = "thrown" /\ presult' = msg
            /\ UNCHANGED <<backoffEnd, waits>>
       ELSE IF attempt < MAX_RETRIES
       THEN /\ ppc' = "backoff"
            /\ backoffEnd' = pclock + 1000 * attempt
            /\ waits' = Append(waits, [ms |-> 1000 * attempt, after |-> attempt, at |-> pclock])
            /\ UNCHANGED presult
       ELSE /\ ppc' = "thrown" /\ presult' = msg
            /\ UNCHANGED <<backoffEnd, waits>>

\* the inputs and responses the model draws from
CallArgs ==
    [cropId : {NullStr, "", "c1"}, targetDate : {NoDate, BadDate, 9, 10, 11},
     clock : {10 * HoursPerDay + 2, 10 * HoursPerDay + 21}, tzOff : {-8, 0, 5}]

ErrorStatuses == {429, 500, 503}
ErrorBodies == {<<"Internal", "Server", "Error">>, <<"Missing", "field", "crop_id">>,
                <<"target_date", "must", "be", "a", "date">>, MsgNoBody}

PriceValues == {JsNull, JsNum(120), [t |-> "string", numeric |-> TRUE, v |-> 95],
                [t |-> "string", numeric |-> FALSE, v |-> 0], [t |-> "boolean", b |-> TRUE]}
Bodies ==
    [predicted_price : PriceValues, confidence : {JsNull, JsNum(1)},
     trend : {"rising", "up"}, crop_id : {NullStr}, target_date : {NoDate}]

PredIdle ==
    /\ ppc = "idle" /\ pargs = <<>> /\ attempt = 0 /\ lastError = NoError /\ pclock = 0
    /\ reqStart = 0 /\ backoffEnd = 0 /\ requests = <<>> /\ waits = <<>> /\ failures = <<>>
    /\ presult = <<>>

\* predictPrice(cropId, targetDate) is called: validation, then the first request
PredictCall ==
    /\ ppc = "idle"
    /\ \E a \in CallArgs :
        /\ pargs' = a
        /\ IF ValidationError(a) # NoError
           THEN /\ ppc' = "thrown" /\ presult' = ValidationError(a)
                /\ UNCHANGED <<attempt, reqStart, requests>>
           ELSE /\ IssueRequest(1) /\ UNCHANGED presult
    /\ UNCHANGED <<lastError, pclock, backoffEnd, waits, failures>>
    /\ UNCHANGED <<pureVars, orchVars, weatherVars>>

\* the response arrives before the timer, with a success status (lines 79-100)
PredictResponseOk ==
    /\ ppc = "request" /\ pclock - reqStart < TIMEOUT_MS
    /\ \/ Catch(MsgInvalidJson)
       \/ \E data \in Bodies :
            IF PriceInvalid(data)
            THEN Catch(MsgMissingPrice)
            ELSE /\ ppc' = "returned" /\ presult' = PredictionOf(data, pargs)
                 /\ UNCHANGED <<pargs, attempt, lastError, pclock, reqStart, backoffEnd,
                                requests, waits, failures>>
    /\ UNCHANGED <<pureVars, orchVars, weatherVars>>

\* the response arrives before the timer, with !response.ok (lines 74-77)
PredictResponseError ==
    /\ ppc = "request" /\ pclock - reqStart < TIMEOUT_MS
    /\ \E status \in ErrorStatuses, errorBody \in ErrorBodies :
            Catch(MsgApiError(status, errorBody))
    /\ UNCHANGED <<pureVars, orchVars, weatherVars>>

\* fetch() rejects before the timer
PredictNetworkError ==
    /\ ppc = "request" /\ pclock - reqStart < TIMEOUT_MS
    /\ Catch(MsgNetwork)
    /\ UNCHANGED <<pureVars, orchVars, weatherVars>>

\* the timer of Promise.race fires first (lines 21-28)
PredictTimeout ==
    /\ ppc = "request" /\ pclock - reqStart >= TIMEOUT_MS
    /\ Catch(MsgTimeout)
    /\ UNCHANGED <<pureVars, orchVars, weatherVars>>

\* setTimeout(r, 1000 * attempt) fires: the loop goes on to the next attempt
PredictBackoffDone ==
    /\ ppc = "backoff" /\ pclock >= backoffEnd
    /\ IssueRequest(attempt + 1)
    /\ UNCHANGED <<pargs, lastError, pclock, backoffEnd, waits, failures, presult>>
    /\ UNCHANGED <<pureVars, orchVars, weatherVars>>

\* time passes while a request or a backoff timer is pending, up to the timer's deadline
PredictTick ==
    /\ \/ ppc = "request" /\ pclock - reqStart < TIMEOUT_MS
       \/ ppc = "backoff" /\ pclock < backoffEnd
    /\ pclock' = Min(pclock + TickMs,
                     IF ppc = "request" THEN reqStart + TIMEOUT_MS ELSE backoffEnd)
    /\ UNCHANGED <<ppc, pargs, attempt, lastError, reqStart, backoffEnd, requests, waits,
                   failures, presult>>
    /\ UNCHANGED <<pureVars, orchVars, weatherVars>>

(***************************************************************************)
(* MAIN ORCHESTRATOR (harvestOrchestrator.js 165-335)                      *)
(*                                                                         *)
(* Each action is the completion of one awaited call together with the     *)
(* synchronous code that follows it, up to the next await.                 *)
(***************************************************************************)
CACHE_TTL_HOURS == 6
FRESH_HOURS == 24             \* marketSupabase.js: a cached prediction is fresh for 24 hours

NumInv == 2                   \* invocations of processAllCrops that may overlap
MaxRuns == 2                  \* invocations started in one behaviour
MaxTicks == 2                 \* clock steps in one behaviour
TickHours == 3                \* hours per clock step
MaxFaults == 1                \* failing external calls in one behaviour
DeviceTz == 5                 \* the device's time zone, hours east of UTC
StartNow == BaseDay * HoursPerDay + 18

Invs == 1..NumInv
NoMark == -1                  \* getItem returns null: the crop was never processed
Undefined == "undefined"

\* an entry of 'user-crops' as CropSelectionScreen saves it (lines 307-315 of part_005)
UserCrop(id, name, harvestDate) ==
    [id |-> id, name |-> name, harvestDate |-> harvestDate, harvestStatus |-> Undefined,
     riskLevel |-> Undefined, riskPercentage |-> NullNum, totalRisk |-> NullNum,
     shelfLifeRemaining |-> NullNum, advisory |-> NoAdvisory, priceTrend |-> Undefined]

NoCrop == UserCrop("", "", NoDate)
NoRow == RefRow("", "", NullNum, NullNum, NullStr, NullNum, NullStr)

\* the crops master table, as fetchAllCrops / fetchCropWithStorage return it
Catalog ==
    <<RefRow("r1", "Tomato", 10, 30, "High", 10, "Cold"),
      RefRow("r2", "wheat", 5, 35, "Medium", 20, "Dry"),
      RefRow("r4", "Rice", NullNum, NullNum, NullStr, NullNum, NullStr)>>

CropIds == {"r1", "r2", "r3", "r4"}

\* String.prototype.toLowerCase on the crop names the model uses
ToLowerCase(s) ==
    CASE s = "Tomato" -> "tomato" [] s = "Wheat" -> "wheat" [] s = "Rice" -> "rice"
      [] s = "Quinoa" -> "quinoa" [] OTHER -> s

\* allCrops.find(c => c.crop_name.toLowerCase() === (crop.name || '').toLowerCase())
FindMatch(allCrops, crop) ==
    LET hits == SelectSeq(allCrops, LAMBDA c : ToLowerCase(c.crop_name) = ToLowerCase(crop.name))
    IN  IF hits = <<>> THEN NoRow ELSE Head(hits)

\* the portfolios a crop selection can have stored (ids and names of catalog rows)
SelectableCrops ==
    <<UserCrop("r1", "Tomato", BaseDay - 12), UserCrop("r2", "Wheat", BaseDay + 1),
      UserCrop("r3", "Quinoa", BaseDay - 3), UserCrop("r4", "Rice", BaseDay + 9)>>

MaxCrops == 2                 \* crops in a portfolio

\* the selected crops, in the order of the catalog
Picks ==
    {q \in UNION {[1..m -> 1..Len(SelectableCrops)] : m \in 0..MaxCrops} :
        \A a, b \in 1..Len(q) : a < b => q[a] < q[b]}

Portfolios == {[k \in 1..Len(q) |-> SelectableCrops[q[k]]] : q \in Picks}

Weathers == {NoWeather, [ok |-> TRUE, temperature |-> 35, humidity |-> 80, rainfall |-> 70]}

\* variant: the newest row is used whatever its age
getCachedPredictionAnyAge(cropId, targetDate, userPhone, clock) ==
    LET rows == {r \in predictions : r.crop_id = cropId /\ r.target_date = targetDate
                                     /\ r.user_phone = userPhone}
        newest == CHOOSE r \in rows : \A q \in rows : q.created_at <= r.created_at
    IN  IF rows = {} THEN [found |-> FALSE, trend |-> NullStr]
        ELSE [found |-> TRUE, trend |-> newest.trend]

\* getCachedPrediction(cropId, targetDate, userPhone): the newest row, when fresh
getCachedPrediction(cropId, targetDate, userPhone, clock) ==
    LET rows == {r \in predictions : r.crop_id = cropId /\ r.target_date = targetDate
                                     /\ r.user_phone = userPhone}
        newest == CHOOSE r \in rows : \A q \in rows : q.created_at <= r.created_at
    IN  IF rows = {} THEN [found |-> FALSE, trend |-> NullStr]
        ELSE IF clock - newest.created_at < FRESH_HOURS
        THEN [found |-> TRUE, trend |-> newest.trend]
        ELSE [found |-> FALSE, trend |-> NullStr]

\* what a call saw when it began: the value the call before it returned (valid when no
\* other call or writer ran in between) and the oldest last-run mark of its crops
NoBase == [valid |-> FALSE, result |-> <<>>, force |-> FALSE, oldestMark |-> NoMark]

NoReturn ==
    [valid |-> FALSE, result |-> <<>>, persisted |-> FALSE, force |-> FALSE, crops |-> <<>>,
     outcomes |-> <<>>, base |-> NoBase, at |-> 0]

IdleInv ==
    [pc |-> "idle", force |-> FALSE, crops |-> <<>>, weather |-> NoWeather,
     weatherCalls |-> 0, userPhone |-> NullStr, idx |-> 0, updatedCrops |-> <<>>, cur |-> NoCrop, match |-> NoRow,
     tag |-> "", outcomes |-> <<>>, base |-> NoBase]

OrchIdle ==
    /\ now = StartNow /\ userCrops = <<>> /\ userProfile = NullStr
    /\ lastRun = [c \in CropIds |-> NoMark] /\ predictions = {} /\ riskHistory = <<>>
    /\ inv = [i \in Invs |-> IdleInv] /\ runs = 0 /\ ticks = 0 /\ faults = 0
    /\ lastReturn = NoReturn

Init ==
    /\ now = StartNow
    /\ userCrops \in Portfolios
    /\ userProfile = "p1"
    /\ lastRun = [c \in CropIds |-> NoMark]
    /\ predictions = {[crop_id |-> "r2", target_date |-> BaseDay + 1, user_phone |-> "p1",
                       trend |-> "falling", created_at |-> StartNow - 3]}
    /\ riskHistory = <<>>
    /\ inv = [i \in Invs |-> IdleInv]
    /\ runs = 0 /\ ticks = 0 /\ faults = 0
    /\ lastReturn = NoReturn
    /\ PredIdle /\ WeatherIdle /\ fpc = "idle" /\ call = <<>> /\ ret = <<>>

Active(r) == r.pc \notin {"idle", "done"}

\* external calls fail only while the budget of failures lasts
B2N(b) == IF b THEN 1 ELSE 0
Failing(n) == faults + n <= MaxFaults /\ faults' = faults + n

\* updatedCrops.push(...) and the next iteration of the loop of processAllCrops
Pushed(r, crop, tag) ==
    [r EXCEPT !.updatedCrops = Append(@, crop), !.outcomes = Append(@, tag),
              !.idx = @ + 1, !.cur = NoCrop, !.match = NoRow, !.tag = "",
              !.pc = IF r.idx = Len(r.crops) THEN "persist" ELSE "crop"]

\* variant: a crop whose processing threw is pushed as far as it was updated
CompleteCropKeepsUpdate(i, updatedCrop, tag, markFails) ==
    LET r == inv[i]
        crop == r.crops[r.idx]
    IN  IF markFails
        THEN /\ inv' = [inv EXCEPT ![i] = Pushed(r, updatedCrop, "threw")]
             /\ UNCHANGED lastRun
        ELSE /\ inv' = [inv EXCEPT ![i] = Pushed(r, updatedCrop, tag)]
             /\ lastRun' = [lastRun EXCEPT ![crop.id] = now]

\* lines 309-312 and 204-209: the last-run mark is written and the updated crop pushed;
\* when the write rejects, processSingleCrop throws and the original crop is pushed
CompleteCrop(i, updatedCrop, tag, markFails) ==
    LET r == inv[i]
        crop == r.crops[r.idx]
    IN  IF markFails
        THEN /\ inv' = [inv EXCEPT ![i] = Pushed(r, crop, "threw")]
             /\ UNCHANGED lastRun
        ELSE /\ inv' = [inv EXCEPT ![i] = Pushed(r, updatedCrop, tag)]
             /\ lastRun' = [lastRun EXCEPT ![crop.id] = now]

\* the oldest last-run mark among the crops of a portfolio (NoMark when one has none)
RECURSIVE OldestMark(_)
OldestMark(crops) ==
    IF crops = <<>> THEN NoMark
    ELSE IF Len(crops) = 1 THEN lastRun[crops[1].id]
    ELSE Min(lastRun[Head(crops).id], OldestMark(Tail(crops)))

\* processAllCrops(force) is called: lines 179-200. The weather provider is called once
\* and returns a snapshot; when reading 'farm-details' fails instead, the catch reads
\* 'weather-cache', which holds a snapshot or nothing
Start(i, force) ==
    /\ ~Active(inv[i]) /\ runs < MaxRuns
    /\ \A j \in Invs : j < i => Active(inv[j])
    /\ runs' = runs + 1
    /\ LET alone == \A j \in Invs : ~Active(inv[j])
           base == IF alone /\ lastReturn.valid
                   THEN [valid |-> TRUE, result |-> lastReturn.result,
                         force |-> lastReturn.force, oldestMark |-> OldestMark(userCrops)]
                   ELSE NoBase
           others == [j \in Invs |-> [inv[j] EXCEPT !.base = NoBase]]
       IN  IF userCrops = <<>>
           THEN /\ inv' = others
                /\ lastReturn' = [NoReturn EXCEPT !.valid = alone, !.force = force,
                                                  !.base = base, !.at = now]
                /\ UNCHANGED faults
           ELSE /\ \E farmFails \in BOOLEAN :
                    /\ Failing(B2N(farmFails))
                    /\ \E w \in IF farmFails THEN Weathers ELSE Weathers \ {NoWeather} :
                          inv' = [others EXCEPT ![i] =
                                    [IdleInv EXCEPT !.pc = "crop", !.force = force,
                                                    !.crops = userCrops, !.weather = w,
                                                    !.weatherCalls = B2N(~farmFails),
                                                    !.userPhone = userProfile, !.idx = 1,
                                                    !.base = base]]
                /\ lastReturn' = NoReturn
    /\ UNCHANGED <<now, userCrops, userProfile, lastRun, predictions, riskHistory, ticks>>
    /\ UNCHANGED <<pureVars, predVars, weatherVars>>

\* lines 228-236: the crop was processed less than CACHE_TTL_HOURS ago
\* variant: a mark of exactly CACHE_TTL_HOURS still counts as fresh
TtlFreshInclusive(id) == lastRun[id] # NoMark /\ now - lastRun[id] <= CACHE_TTL_HOURS

TtlFresh(id) == lastRun[id] # NoMark /\ now - lastRun[id] < CACHE_TTL_HOURS

\* variant: a crop approaching harvest gets the default price trend written
CropStartStableTrend(i) ==
    LET r == inv[i]
        crop == r.crops[r.idx]
        harvestStatus == detectHarvestStatus(crop, now, DeviceTz)
        updatedCrop == [crop EXCEPT !.harvestStatus = harvestStatus]
        prepared == [updatedCrop EXCEPT !.riskLevel = NullStr, !.priceTrend = "stable",
                                        !.advisory = PrepareAdvisory(crop, now, DeviceTz)]
    IN  /\ r.pc = "crop"
        /\ \E readFails, markFails \in BOOLEAN :
            /\ Failing(B2N(readFails) + B2N(markFails))
            /\ readFails => ~r.force
            /\ IF readFails
               THEN /\ ~markFails
                    /\ inv' = [inv EXCEPT ![i] = Pushed(r, crop, "threw")]
                    /\ UNCHANGED lastRun
               ELSE IF ~r.force /\ TtlFresh(crop.id)
               THEN /\ ~markFails
                    /\ inv' = [inv EXCEPT ![i] = Pushed(r, crop, "skipped")]
                    /\ UNCHANGED lastRun
               ELSE IF harvestStatus \in {"ready_for_harvest", "post_harvest"}
               THEN /\ ~markFails
                    /\ inv' = [inv EXCEPT ![i] = [r EXCEPT !.pc = "lookup", !.cur = updatedCrop]]
                    /\ UNCHANGED lastRun
               ELSE IF harvestStatus = "approaching_harvest"
               THEN CompleteCrop(i, prepared, "approaching", markFails)
               ELSE CompleteCrop(i, updatedCrop, "growing", markFails)
        /\ UNCHANGED <<now, userCrops, userProfile, predictions, riskHistory, runs, ticks,
                       lastReturn>>
        /\ UNCHANGED <<pureVars, predVars, weatherVars>>

\* processSingleCrop, lines 226-241 and 300-312: the TTL check, the status detection and
\* the branches that need no reference data
CropStart(i) ==
    LET r == inv[i]
        crop == r.crops[r.idx]
        harvestStatus == detectHarvestStatus(crop, now, DeviceTz)
        updatedCrop == [crop EXCEPT !.harvestStatus = harvestStatus]
        prepared == [updatedCrop EXCEPT !.riskLevel = NullStr,
                                        !.advisory = PrepareAdvisory(crop, now, DeviceTz)]
    IN  /\ r.pc = "crop"
        /\ \E readFails, markFails \in BOOLEAN :
            /\ Failing(B2N(readFails) + B2N(markFails))
            /\ readFails => ~r.force
            /\ IF readFails
               THEN /\ ~markFails
                    /\ inv' = [inv EXCEPT ![i] = Pushed(r, crop, "threw")]
                    /\ UNCHANGED lastRun
               ELSE IF ~r.force /\ TtlFresh(crop.id)
               THEN /\ ~markFails
                    /\ inv' = [inv EXCEPT ![i] = Pushed(r, crop, "skipped")]
                    /\ UNCHANGED lastRun
               ELSE IF harvestStatus \in {"ready_for_harvest", "post_harvest"}
               THEN /\ ~markFails
                    /\ inv' = [inv EXCEPT ![i] = [r EXCEPT !.pc = "lookup", !.cur = updatedCrop]]
                    /\ UNCHANGED lastRun
               ELSE IF harvestStatus = "approaching_harvest"
               THEN CompleteCrop(i, prepared, "approaching", markFails)
               ELSE CompleteCrop(i, updatedCrop, "growing", markFails)
        /\ UNCHANGED <<now, userCrops, userProfile, predictions, riskHistory, runs, ticks,
                       lastReturn>>
        /\ UNCHANGED <<pureVars, predVars, weatherVars>>

\* variant: a crop without a matching reference row returns before the mark is written
LookupDoneReturnsEarly(i) ==
    LET r == inv[i]
        crop == r.crops[r.idx]
        match == FindMatch(Catalog, crop)
    IN  /\ r.pc = "lookup"
        /\ \E lookupFails, markFails \in BOOLEAN :
            /\ Failing(B2N(lookupFails) + B2N(markFails))
            /\ IF lookupFails
               THEN CompleteCrop(i, r.cur, "lookup_failed", markFails)
               ELSE IF match = NoRow
               THEN /\ ~markFails
                    /\ inv' = [inv EXCEPT ![i] = Pushed(r, r.cur, "no_match")]
                    /\ UNCHANGED lastRun
               ELSE /\ ~markFails
                    /\ inv' = [inv EXCEPT ![i] = [r EXCEPT !.pc = "storage", !.match = match]]
                    /\ UNCHANGED lastRun
        /\ UNCHANGED <<now, userCrops, userProfile, predictions, riskHistory, runs, ticks,
                       lastReturn>>
        /\ UNCHANGED <<pureVars, predVars, weatherVars>>

\* lines 245-253 and 297-299: fetchAllCrops returns or throws, the match is looked up
LookupDone(i) ==
    LET r == inv[i]
        crop == r.crops[r.idx]
        match == FindMatch(Catalog, crop)
    IN  /\ r.pc = "lookup"
        /\ \E lookupFails, markFails \in BOOLEAN :
            /\ Failing(B2N(lookupFails) + B2N(markFails))
            /\ IF lookupFails
               THEN CompleteCrop(i, r.cur, "lookup_failed", markFails)
               ELSE IF match = NoRow
               THEN CompleteCrop(i, r.cur, "no_match", markFails)
               ELSE /\ ~markFails
                    /\ inv' = [inv EXCEPT ![i] = [r EXCEPT !.pc = "storage", !.match = match]]
                    /\ UNCHANGED lastRun
        /\ UNCHANGED <<now, userCrops, userProfile, predictions, riskHistory, runs, ticks,
                       lastReturn>>
        /\ UNCHANGED <<pureVars, predVars, weatherVars>>

\* variant: the risk is computed with the default weather, not the snapshot of the run
StorageDoneOwnWeather(i) ==
    LET r == inv[i]
        crop == r.crops[r.idx]
        supabaseCrop == r.match
        riskResult == calculateCombinedRisk(supabaseCrop, crop.harvestDate, DefaultWeather, now,
                                            DeviceTz)
        scored == [r.cur EXCEPT !.riskLevel = riskResult.riskLevel,
                                !.riskPercentage = riskResult.spoilageResult.riskPercentage,
                                !.totalRisk = riskResult.totalRisk,
                                !.shelfLifeRemaining = riskResult.spoilageResult.shelfLifeRemaining]
        advised == [scored EXCEPT !.advisory = generateAdvisory(riskResult.riskLevel, "stable"),
                                  !.priceTrend = "stable"]
    IN  /\ r.pc = "storage"
        /\ \E storageFails, markFails \in BOOLEAN :
            /\ Failing(B2N(storageFails) + B2N(markFails))
            /\ LET tag == IF storageFails THEN "scored_storage_failed" ELSE "scored"
               IN  IF r.userPhone # NullStr /\ r.match.id # ""
                   THEN /\ ~markFails
                        /\ inv' = [inv EXCEPT ![i] = [r EXCEPT !.pc = "prediction",
                                                               !.cur = scored, !.tag = tag]]
                        /\ UNCHANGED lastRun
                   ELSE CompleteCrop(i, advised, tag, markFails)
        /\ UNCHANGED <<now, userCrops, userProfile, predictions, riskHistory, runs, ticks,
                       lastReturn>>
        /\ UNCHANGED <<pureVars, predVars, weatherVars>>

\* lines 254-283: fetchCropWithStorage returns or throws (then the match is used), the
\* risk is computed; without a phone the advisory follows at once
StorageDone(i) ==
    LET r == inv[i]
        crop == r.crops[r.idx]
        supabaseCrop == r.match
        riskResult == calculateCombinedRisk(supabaseCrop, crop.harvestDate, r.weather, now,
                                            DeviceTz)
        scored == [r.cur EXCEPT !.riskLevel = riskResult.riskLevel,
                                !.riskPercentage = riskResult.spoilageResult.riskPercentage,
                                !.totalRisk = riskResult.totalRisk,
                                !.shelfLifeRemaining = riskResult.spoilageResult.shelfLifeRemaining]
        advised == [scored EXCEPT !.advisory = generateAdvisory(riskResult.riskLevel, "stable"),
                                  !.priceTrend = "stable"]
    IN  /\ r.pc = "storage"
        /\ \E storageFails, markFails \in BOOLEAN :
            /\ Failing(B2N(storageFails) + B2N(markFails))
            /\ LET tag == IF storageFails THEN "scored_storage_failed" ELSE "scored"
               IN  IF r.userPhone # NullStr /\ r.match.id # ""
                   THEN /\ ~markFails
                        /\ inv' = [inv EXCEPT ![i] = [r EXCEPT !.pc = "prediction",
                                                               !.cur = scored, !.tag = tag]]
                        /\ UNCHANGED lastRun
                   ELSE CompleteCrop(i, advised, tag, markFails)
        /\ UNCHANGED <<now, userCrops, userProfile, predictions, riskHistory, runs, ticks,
                       lastReturn>>
        /\ UNCHANGED <<pureVars, predVars, weatherVars>>

\* variant: the risk-history insert is awaited, so its failure makes processSingleCrop throw
PredictionDoneAwaitsInsert(i) ==
    LET r == inv[i]
        crop == r.crops[r.idx]
    IN  /\ r.pc = "prediction"
        /\ \E lookupFails, insertFails, markFails \in BOOLEAN :
            /\ Failing(B2N(lookupFails) + B2N(insertFails) + B2N(markFails))
            /\ LET cached == IF lookupFails THEN [found |-> FALSE, trend |-> NullStr]
                             ELSE getCachedPrediction(r.match.id, crop.harvestDate,
                                                      r.userPhone, now)
                   priceTrend == IF cached.found /\ cached.trend \notin {NullStr, ""}
                                 THEN cached.trend ELSE "stable"
                   advised == [r.cur EXCEPT
                                  !.advisory = generateAdvisory(r.cur.riskLevel, priceTrend),
                                  !.priceTrend = priceTrend]
                   row == [crop_id |-> r.match.id, risk_percentage |-> r.cur.riskPercentage,
                           risk_level |-> r.cur.riskLevel, at |-> now]
               IN  /\ riskHistory' = IF insertFails THEN riskHistory
                                     ELSE Append(riskHistory, row)
                   /\ CompleteCrop(i, advised, r.tag, markFails \/ insertFails)
        /\ UNCHANGED <<now, userCrops, userProfile, predictions, runs, ticks, lastReturn>>
        /\ UNCHANGED <<pureVars, predVars, weatherVars>>

\* lines 272-295 and 309-312: getCachedPrediction returns, the advisory is generated, the
\* risk-history insert is fired and the last-run mark written
PredictionDone(i) ==
    LET r == inv[i]
        crop == r.crops[r.idx]
    IN  /\ r.pc = "prediction"
        /\ \E lookupFails, insertFails, markFails \in BOOLEAN :
            /\ Failing(B2N(lookupFails) + B2N(insertFails) + B2N(markFails))
            /\ LET cached == IF lookupFails THEN [found |-> FALSE, trend |-> NullStr]
                             ELSE getCachedPrediction(r.match.id, crop.harvestDate,
                                                      r.userPhone, now)
                   priceTrend == IF cached.found /\ cached.trend \notin {NullStr, ""}
                                 THEN cached.trend ELSE "stable"
                   advised == [r.cur EXCEPT
                                  !.advisory = generateAdvisory(r.cur.riskLevel, priceTrend),
                                  !.priceTrend = priceTrend]
                   row == [crop_id |-> r.match.id, risk_percentage |-> r.cur.riskPercentage,
                           risk_level |-> r.cur.riskLevel, at |-> now]
               IN  /\ riskHistory' = IF insertFails THEN riskHistory
                                     ELSE Append(riskHistory, row)
                   /\ CompleteCrop(i, advised, r.tag, markFails)
        /\ UNCHANGED <<now, userCrops, userProfile, predictions, runs, ticks, lastReturn>>
        /\ UNCHANGED <<pureVars, predVars, weatherVars>>

\* lines 212-219: the whole portfolio is written back and returned; when the write
\* rejects, the outer catch returns []
Persist(i) ==
    LET r == inv[i]
    IN  /\ r.pc = "persist"
        /\ \E writeFails \in BOOLEAN :
            /\ Failing(B2N(writeFails))
            /\ userCrops' = IF writeFails THEN userCrops ELSE r.updatedCrops
            /\ lastReturn' = [valid |-> TRUE,
                              result |-> IF writeFails THEN <<>> ELSE r.updatedCrops,
                              persisted |-> ~writeFails, force |-> r.force,
                              crops |-> r.crops, outcomes |-> r.outcomes, base |-> r.base,
                              at |-> now]
        /\ inv' = [inv EXCEPT ![i] = IdleInv]
        /\ UNCHANGED <<now, userProfile, lastRun, predictions, riskHistory, runs, ticks>>
        /\ UNCHANGED <<pureVars, predVars, weatherVars>>

\* the clock advances
Tick ==
    /\ ticks < MaxTicks
    /\ ticks' = ticks + 1
    /\ now' = now + TickHours
    /\ UNCHANGED <<userCrops, userProfile, lastRun, predictions, riskHistory, inv, runs,
                   faults, lastReturn>>
    /\ UNCHANGED <<pureVars, predVars, weatherVars>>

Next ==
    \/ \E i \in Invs, force \in BOOLEAN : Start(i, force)
    \/ \E i \in Invs : CropStart(i)
    \/ \E i \in Invs : LookupDone(i)
    \/ \E i \in Invs : StorageDone(i)
    \/ \E i \in Invs : PredictionDone(i)
    \/ \E i \in Invs : Persist(i)
    \/ Tick

Spec == Init /\ [][Next]_vars

PureIdle == fpc = "idle" /\ call = <<>> /\ ret = <<>>

\* a row of crop_price_predictions as upsertPrediction writes it (marketSupabase.js 62-85)
PredictionRow(cropId, targetDate, userPhone, trend, createdAt) ==
    [crop_id |-> cropId, target_date |-> targetDate, user_phone |-> userPhone,
     trend |-> trend, created_at |-> createdAt]

\* contents of crop_price_predictions when the orchestrator runs on one harvested crop:
\* no row, a row of every age around the 24 hour limit, rows of another user, date or crop
CacheTables ==
    {{}}
    \cup {{PredictionRow("r1", BaseDay - 12, "p1", t, StartNow - age)} :
            t \in {"rising", "falling"}, age \in {3, FRESH_HOURS - 3, FRESH_HOURS}}
    \cup {{PredictionRow("r1", BaseDay - 12, "p2", "falling", StartNow - 3),
           PredictionRow("r1", BaseDay - 11, "p1", "falling", StartNow - 3),
           PredictionRow("r2", BaseDay - 12, "p1", "falling", StartNow - 3)}}

InitCache ==
    /\ now = StartNow
    /\ userCrops = <<SelectableCrops[1]>>
    /\ userProfile \in {"p1", NullStr}
    /\ lastRun = [c \in CropIds |-> NoMark]
    /\ predictions \in CacheTables
    /\ riskHistory = <<>>
    /\ inv = [i \in Invs |-> IdleInv]
    /\ runs = 0 /\ ticks = 0 /\ faults = 0
    /\ lastReturn = NoReturn
    /\ PredIdle /\ WeatherIdle /\ PureIdle

SpecCache == InitCache /\ [][Next]_vars

(***************************************************************************)
(* Calls of the pure functions, their arguments drawn from bounded sets    *)
(***************************************************************************)
DaySpan == 10                 \* harvest dates lie within DaySpan days of the base day
TzOffsets == {-8, 0, 5}       \* device time zones, hours east of UTC
CallClocks == {BaseDay * HoursPerDay, BaseDay * HoursPerDay + 13, BaseDay * HoursPerDay + 23}

StatusCalls ==
    [harvestDate : (BaseDay - DaySpan)..(BaseDay + DaySpan) \cup {NoDate, BadDate},
     clock : CallClocks, tzOff : TzOffsets]

InitStatus == fpc = "call" /\ call \in StatusCalls /\ ret = <<>> /\ PredIdle /\ WeatherIdle /\ OrchIdle

DetectHarvestStatusCall ==
    /\ fpc = "call"
    /\ ret' = detectHarvestStatus([harvestDate |-> call.harvestDate], call.clock, call.tzOff)
    /\ fpc' = "return"
    /\ UNCHANGED <<call, predVars, orchVars, weatherVars>>

SpecStatus == InitStatus /\ [][DetectHarvestStatusCall]_vars

\* detectHarvestStatus called again and again for one crop while the clock advances:
\* the crop's harvest date is fixed, todayStr() follows the clock
LastDay == BaseDay + DaySpan + 9

LifecycleCalls ==
    [harvestDate : (BaseDay - DaySpan)..(BaseDay + DaySpan),
     clock : {BaseDay * HoursPerDay}, tzOff : TzOffsets]

InitLifecycle ==
    /\ fpc = "call" /\ call \in LifecycleCalls /\ ret = <<>>
    /\ PredIdle /\ WeatherIdle /\ OrchIdle

\* the clock advances by a few hours or by a day
DateAdvances ==
    /\ \E h \in {TickHours, HoursPerDay} :
          /\ call.clock + h < (LastDay + 1) * HoursPerDay
          /\ call' = [call EXCEPT !.clock = @ + h]
    /\ UNCHANGED <<fpc, ret, predVars, orchVars, weatherVars>>

\* the status is detected at the current clock; the date of the detection is kept
DetectHarvestStatusAgain ==
    /\ ret' = [status |-> detectHarvestStatus([harvestDate |-> call.harvestDate],
                                              call.clock, call.tzOff),
               today |-> todayStr(call.clock)]
    /\ fpc' = "return"
    /\ UNCHANGED <<call, predVars, orchVars, weatherVars>>

NextLifecycle == DateAdvances \/ DetectHarvestStatusAgain

SpecLifecycle == InitLifecycle /\ [][NextLifecycle]_vars

\* the clock never stops, and the status is detected again after the clock has moved
\* (processAllCrops runs on every load of the dashboard and of the crops screen)
SpecLifecycleFair ==
    SpecLifecycle /\ WF_vars(DateAdvances) /\ WF_vars(DetectHarvestStatusAgain)

RiskRows ==
    {RefRow("r1", "Tomato", 10, 30, m, sl, "Cold") : m \in {"High", "Medium", "Low", NullStr},
                                                      sl \in {NullNum, 10, 20}}
    \cup {RefRow("r2", "Wheat", NullNum, NullNum, "Medium", 0, NullStr)}

WeatherInputs ==
    {[ok |-> TRUE, temperature |-> t, humidity |-> h, rainfall |-> r] :
        t \in {5, 10, 30, 35}, h \in {75, 76}, r \in {60, 61}} \cup {NoWeather}

RiskCalls ==
    [crop : RiskRows,
     harvestDate : {BaseDay + 3, BaseDay, BaseDay - 7, BaseDay - 8, BaseDay - 10,
                    BaseDay - 11, BaseDay - 20, BaseDay - 21, BaseDay - 31},
     weather : WeatherInputs, clock : {BaseDay * HoursPerDay + 13}, tzOff : {0, 5}]

InitRisk == fpc = "call" /\ call \in RiskCalls /\ ret = <<>> /\ PredIdle /\ WeatherIdle /\ OrchIdle

CalculateRiskCall ==
    /\ fpc = "call"
    /\ ret' = calculateRisk(call.crop, call.harvestDate, call.weather, call.clock, call.tzOff)
    /\ fpc' = "return"
    /\ UNCHANGED <<call, predVars, orchVars, weatherVars>>

SpecRisk == InitRisk /\ [][CalculateRiskCall]_vars

\* Steps 1 to 3 of processSingleCrop for one crop whose reference record was found;
\* priceTrend is the trend step 3 ends up with
CombinedCalls ==
    [crop : RiskRows,
     harvestDate : {BaseDay + 3, BaseDay, BaseDay - 7, BaseDay - 8, BaseDay - 10,
                    BaseDay - 11, BaseDay - 14, BaseDay - 15, BaseDay - 20, BaseDay - 21,
                    BaseDay - 22, BaseDay - 30, BaseDay - 31},
     weather : WeatherInputs, clock : {BaseDay * HoursPerDay + 13}, tzOff : {0, 5},
     priceTrend : {"stable", "falling", "rising"}]

InitCombined ==
    fpc = "call" /\ call \in CombinedCalls /\ ret = <<>> /\ PredIdle /\ WeatherIdle /\ OrchIdle

ScoreCropCall ==
    /\ fpc = "call"
    /\ LET status == detectHarvestStatus([harvestDate |-> call.harvestDate], call.clock,
                                         call.tzOff)
           riskResult == calculateCombinedRisk(call.crop, call.harvestDate, call.weather,
                                               call.clock, call.tzOff)
       IN  ret' = IF status \in {"ready_for_harvest", "post_harvest"}
                  THEN [status |-> status, riskLevel |-> riskResult.riskLevel,
                        riskPercentage |-> riskResult.spoilageResult.riskPercentage,
                        totalRisk |-> riskResult.totalRisk,
                        shelfLifeRemaining |-> riskResult.spoilageResult.shelfLifeRemaining,
                        advisory |-> generateAdvisory(riskResult.riskLevel, call.priceTrend),
                        priceTrend |-> call.priceTrend]
                  ELSE [status |-> status, riskLevel |-> NullStr, riskPercentage |-> NullNum,
                        totalRisk |-> NullNum, shelfLifeRemaining |-> NullNum,
                        advisory |-> NoAdvisory, priceTrend |-> Undefined]
    /\ fpc' = "return"
    /\ UNCHANGED <<call, predVars, orchVars, weatherVars>>

SpecCombined == InitCombined /\ [][ScoreCropCall]_vars

\* master crop rows the filter is called with
FilterRow(id, soils, months, tmin, tmax, tags, area) ==
    [id |-> id, suitable_soil_types |-> soils, ideal_sowing_months |-> months,
     min_temperature |-> tmin, max_temperature |-> tmax, region_tags |-> tags,
     min_area_required |-> area]

FilterRows ==
    {FilterRow("f1", <<"Loamy">>, <<6, 7>>, 20, 30, <<"North">>, 2),
     FilterRow("f2", <<"clay ">>, <<11>>, 10, 25, NullTags, NullNum),
     FilterRow("f3", NullTags, NullMonths, 15, 35, <<"South">>, 0),
     FilterRow("f4", <<"Clay", " loamy ">>, <<6>>, 25, 25, <<" north">>, 1),
     FilterRow("f5", <<"Loamy">>, <<>>, 20, 30, <<"North">>, 1)}

MaxCatalog == 2               \* rows in a catalog

\* catalogs with more rows than the filters return
LargeCatalogs ==
    LET f(id) == CHOOSE r \in FilterRows : r.id = id
    IN  {<<f("f1"), f("f4"), f("f3"), f("f1"), f("f4"), f("f3"), f("f2")>>,
         <<f("f2"), f("f3"), f("f4"), f("f1"), f("f3"), f("f5"), f("f1")>>}

Catalogs == UNION {[1..n -> FilterRows] : n \in 0..MaxCatalog} \cup LargeCatalogs

FarmInputs ==
    [soil_type : {NullStr, "LOAMY"}, area_in_hectares : {NullNum, 1, 3},
     temperature : {NullNum, 25, 40}, current_month : {NullNum, 0, 6, 11},
     region : {NullStr, "North"}]

FilterCalls == [allCrops : Catalogs, farmData : FarmInputs, clock : {BaseDay * HoursPerDay}]

InitFilter == fpc = "call" /\ call \in FilterCalls /\ ret = <<>> /\ PredIdle /\ WeatherIdle /\ OrchIdle

FilterCropsForFarmCall ==
    /\ fpc = "call"
    /\ ret' = filterCropsForFarm(call.allCrops, call.farmData, call.clock)
    /\ fpc' = "return"
    /\ UNCHANGED <<call, predVars, orchVars, weatherVars>>

SpecFilter == InitFilter /\ [][FilterCropsForFarmCall]_vars

ApplyStrictFilterCall ==
    /\ fpc = "call"
    /\ ret' = applyStrictFilter(call.allCrops, NormaliseFarm(call.farmData, call.clock))
    /\ fpc' = "return"
    /\ UNCHANGED <<call, predVars, orchVars, weatherVars>>

SpecStrict == InitFilter /\ [][ApplyStrictFilterCall]_vars

SowingMonths == {NullMonths, <<>>, <<1, 6>>, <<2, 3>>, <<7, 6>>, <<11>>, <<12, 1>>}
SowingInstants ==
    [date : {CalDate(2026, 11, 5), CalDate(2026, 12, 31), CalDate(2026, 6, 30),
             CalDate(2027, 1, 1), CalDate(2028, 2, 29)},
     hour : {2, 21}]

SowingCalls == [months : SowingMonths, instant : SowingInstants, tzOff : TzOffsets]

InitSowing == fpc = "call" /\ call \in SowingCalls /\ ret = <<>> /\ PredIdle /\ WeatherIdle /\ OrchIdle

\* CropSelectionScreen passes currentMonth = new Date().getMonth() + 1 (part_005, line 82)
ComputeSowingDateCall ==
    /\ fpc = "call"
    /\ ret' = computeSowingDate([ideal_sowing_months |-> call.months],
                                LocalDate(call.instant, call.tzOff).month,
                                call.instant, call.tzOff)
    /\ fpc' = "return"
    /\ UNCHANGED <<call, predVars, orchVars, weatherVars>>

SpecSowing == InitSowing /\ [][ComputeSowingDateCall]_vars

\* generateAdvisory(riskLevel, priceTrend = 'stable'): an undefined trend is the default
AdvisoryRiskLevels == {"High", "Moderate", "Low", "Pre-Harvest", "high", "", NullStr, Undefined}
AdvisoryTrends == {"rising", "falling", "stable", "up", "Falling", "", NullStr, Undefined}

AdvisoryCalls == [riskLevel : AdvisoryRiskLevels, priceTrend : AdvisoryTrends]

InitAdvisory == fpc = "call" /\ call \in AdvisoryCalls /\ ret = <<>> /\ PredIdle /\ WeatherIdle /\ OrchIdle

GenerateAdvisoryCall ==
    /\ fpc = "call"
    /\ ret' = generateAdvisory(call.riskLevel,
                               IF call.priceTrend = Undefined THEN "stable"
                               ELSE call.priceTrend)
    /\ fpc' = "return"
    /\ UNCHANGED <<call, predVars, orchVars, weatherVars>>

SpecAdvisory == InitAdvisory /\ [][GenerateAdvisoryCall]_vars

InitWeather == WeatherStart /\ PredIdle /\ PureIdle /\ OrchIdle

SpecWeather == InitWeather /\ [][NextWeather]_vars

(***************************************************************************)
(* The market flow (MarketScreen.jsx, handlePredict) next to the scoring   *)
(* of one harvested crop (processSingleCrop, steps 1 to 3), on one clock.  *)
(* call holds the crop, its reference row and the device; fpc is the       *)
(* position of the market flow; ret is the latest scoring of the crop.     *)
(***************************************************************************)
MaxMarketTicks == 27          \* hours the clock advances in one behaviour
MarketStartHour == 22         \* the behaviours start at this hour of the base day

MarketCalls ==
    [crop : {RefRow("r5", "Okra", 10, 30, "High", sl, "Cold") : sl \in {1, 2}},
     harvestDate : {BaseDay, BaseDay + 1},
     weather : {[ok |-> TRUE, temperature |-> 35, humidity |-> 80, rainfall |-> 70]},
     userPhone : {"p1"}, tzOff : TzOffsets]

NoScoring ==
    [status |-> Undefined, riskLevel |-> Undefined, priceTrend |-> Undefined,
     advisory |-> NoAdvisory, at |-> 0]

InitMarket ==
    /\ fpc = "idle" /\ call \in MarketCalls /\ ret = NoScoring
    /\ now = BaseDay * HoursPerDay + MarketStartHour
    /\ userCrops = <<>> /\ userProfile = "p1"
    /\ lastRun = [c \in CropIds |-> NoMark] /\ predictions = {} /\ riskHistory = <<>>
    /\ inv = [i \in Invs |-> IdleInv] /\ runs = 0 /\ ticks = 0 /\ faults = 0
    /\ lastReturn = NoReturn
    /\ PredIdle /\ WeatherIdle

MarketFrame ==
    UNCHANGED <<call, userCrops, userProfile, lastRun, riskHistory, inv, runs, faults,
                lastReturn, predVars, weatherVars>>

\* handlePredict, lines 102-137: no fresh cached prediction for the harvest date, and
\* predictPrice accepts the date (part_000, lines 44-51); the request is sent
HandlePredictStart ==
    /\ fpc = "idle"
    /\ ~getCachedPrediction(call.crop.id, call.harvestDate, call.userPhone, now).found
    /\ ~TargetBeforeToday(call.harvestDate, now, call.tzOff)
    /\ fpc' = "predicting"
    /\ UNCHANGED <<ret, now, ticks, predictions>>
    /\ MarketFrame

\* handlePredict, lines 137-157: predictPrice resolves and upsertPrediction replaces the
\* row of (crop, date, user), created_at being the clock then; or predictPrice rejects
HandlePredictDone ==
    /\ fpc = "predicting"
    /\ \/ \E trend \in {"falling", "rising"} :
            predictions' =
                {r \in predictions : ~(/\ r.crop_id = call.crop.id
                                       /\ r.target_date = call.harvestDate
                                       /\ r.user_phone = call.userPhone)}
                \cup {PredictionRow(call.crop.id, call.harvestDate, call.userPhone, trend, now)}
       \/ UNCHANGED predictions
    /\ fpc' = "idle"
    /\ UNCHANGED <<ret, now, ticks>>
    /\ MarketFrame

\* processSingleCrop, lines 239-283, for the crop with its reference row
ProcessHarvestedCrop ==
    LET status == detectHarvestStatus([harvestDate |-> call.harvestDate], now, call.tzOff)
        riskResult == calculateCombinedRisk(call.crop, call.harvestDate, call.weather, now,
                                            call.tzOff)
        cached == getCachedPrediction(call.crop.id, call.harvestDate, call.userPhone, now)
        priceTrend == IF cached.found /\ cached.trend \notin {NullStr, ""}
                      THEN cached.trend ELSE "stable"
    IN  /\ ret' = IF status \in {"ready_for_harvest", "post_harvest"}
                  THEN [status |-> status, riskLevel |-> riskResult.riskLevel,
                        priceTrend |-> priceTrend,
                        advisory |-> generateAdvisory(riskResult.riskLevel, priceTrend),
                        at |-> now]
                  ELSE [NoScoring EXCEPT !.status = status, !.at = now]
        /\ ret' # ret
        /\ UNCHANGED <<fpc, now, ticks, predictions>>
        /\ MarketFrame

\* the clock advances by an hour
MarketTick ==
    /\ ticks < MaxMarketTicks
    /\ ticks' = ticks + 1
    /\ now' = now + 1
    /\ UNCHANGED <<fpc, ret, predictions>>
    /\ MarketFrame

NextMarket ==
    \/ HandlePredictStart
    \/ HandlePredictDone
    \/ ProcessHarvestedCrop
    \/ MarketTick

SpecMarket == InitMarket /\ [][NextMarket]_vars

InitPredict == PredIdle /\ WeatherIdle /\ PureIdle /\ OrchIdle

NextPredict ==
    \/ PredictCall
    \/ PredictResponseOk
    \/ PredictResponseError
    \/ PredictNetworkError
    \/ PredictTimeout
    \/ PredictBackoffDone
    \/ PredictTick

SpecPredict == InitPredict /\ [][NextPredict]_vars

(***************************************************************************)
(* Properties of the orchestrator                                          *)
(***************************************************************************)
\* no call of processAllCrops that is running or has just returned was forced
NoForcedCall == (\A j \in Invs : ~inv[j].force) /\ ~lastReturn.force

\* C1: over any calls of processAllCrops, overlapping ones included, a crop id is
\* processed at most once within a TTL window of 6 hours unless a call was forced: a
\* step that rewrites the last-run mark of a crop finds the mark it replaces at least
\* CACHE_TTL_HOURS old.
C1_AtMostOncePerTtlWindow ==
    [][\A id \in CropIds :
          (lastRun'[id] # lastRun[id] /\ lastRun[id] # NoMark /\ NoForcedCall)
              => now - lastRun[id] >= CACHE_TTL_HOURS]_vars

\* the outcomes of a crop one of whose processing steps failed
FailedOutcomes == {"threw", "lookup_failed", "scored_storage_failed"}

C3_SecondCallReturnsFirstResult ==
    (/\ lastReturn.valid /\ ~lastReturn.force
     /\ lastReturn.base.valid /\ ~lastReturn.base.force
     /\ lastReturn.base.oldestMark # NoMark
     /\ lastReturn.at - lastReturn.base.oldestMark < CACHE_TTL_HOURS) =>
        /\ lastReturn.result = lastReturn.base.result
        /\ \A k \in 1..Len(lastReturn.outcomes) :
            lastReturn.outcomes[k] \in {"skipped", "threw"}

\* the crop a call in its prediction step pushes when nothing but the history write fails
AdvisedCrop(r) ==
    LET cached == getCachedPrediction(r.match.id, r.crops[r.idx].harvestDate, r.userPhone, now)
        priceTrend == IF cached.found /\ cached.trend \notin {NullStr, ""}
                      THEN cached.trend ELSE "stable"
    IN  [r.cur EXCEPT !.advisory = generateAdvisory(r.cur.riskLevel, priceTrend),
                      !.priceTrend = priceTrend]

\* C15: a failure of the risk-history write never changes the fields returned for the
\* crop, never prevents its last-run mark from being set, never delays or prevents the
\* processing of the following crops and never prevents the portfolio from being
\* persisted: a prediction step in which only the history write fails (no row is added)
\* pushes the advised crop, writes the mark and moves on, and a persist step whose own
\* write succeeds stores and returns everything that was pushed.
C15_HistoryFailureIsolated ==
    [][\A i \in Invs :
          /\ (/\ inv[i].pc = "prediction" /\ inv'[i].pc # "prediction"
              /\ riskHistory' = riskHistory /\ faults' = faults + 1) =>
                /\ lastRun'[inv[i].crops[inv[i].idx].id] = now
                /\ inv'[i].updatedCrops = Append(inv[i].updatedCrops, AdvisedCrop(inv[i]))
                /\ inv'[i].outcomes = Append(inv[i].outcomes, inv[i].tag)
                /\ inv'[i].idx = inv[i].idx + 1
                /\ inv'[i].pc = IF inv[i].idx = Len(inv[i].crops) THEN "persist" ELSE "crop"
          /\ (inv[i].pc = "persist" /\ inv'[i].pc # "persist" /\ faults' = faults) =>
                /\ userCrops' = inv[i].updatedCrops
                /\ lastReturn'.persisted /\ lastReturn'.result = inv[i].updatedCrops
                /\ Len(lastReturn'.result) = Len(inv[i].crops)]_vars

\* a single call returned and persisted a scored crop whose history row was never written
C15_Witness ==
    /\ runs = 1 /\ faults = 1 /\ riskHistory = <<>>
    /\ lastReturn.valid /\ lastReturn.persisted
    /\ \E k \in 1..Len(lastReturn.outcomes) :
        /\ lastReturn.outcomes[k] = "scored"
        /\ lastReturn.result[k].riskLevel \in {"Low", "Moderate", "High"}
        /\ lastRun[lastReturn.crops[k].id] # NoMark

\* the trend of the cached prediction for (reference id, harvest date, user) that is
\* less than 24 hours old, "stable" when there is none or no user phone
CachedTrend(r) ==
    LET rows == {p \in predictions :
                    /\ p.crop_id = r.match.id /\ p.target_date = r.crops[r.idx].harvestDate
                    /\ p.user_phone = r.userPhone /\ now - p.created_at < 24}
    IN  IF r.userPhone = NullStr \/ rows = {} THEN "stable"
        ELSE (CHOOSE p \in rows : \A q \in rows : q.created_at <= p.created_at).trend

ScoredOutcomes == {"scored", "scored_storage_failed"}

\* C16: no orchestrator run calls the live prediction service, and the priceTrend stored
\* on a scored crop is the trend of the cached prediction for (reference id, harvest
\* date, user) when such a row exists and is less than 24 hours old, and "stable" in
\* every other case (no user phone, no row, a row 24 hours old or older, lookup error).
C16_TrendFromCacheOnly ==
    [][/\ requests' = requests /\ ppc' = ppc
       /\ \A i \in Invs :
            (/\ Len(inv'[i].outcomes) = Len(inv[i].outcomes) + 1
             /\ inv'[i].outcomes[Len(inv'[i].outcomes)] \in ScoredOutcomes) =>
                LET pushed == inv'[i].updatedCrops[Len(inv'[i].updatedCrops)]
                IN  /\ pushed.priceTrend \in {CachedTrend(inv[i]), "stable"}
                    /\ faults' = faults => pushed.priceTrend = CachedTrend(inv[i])]_vars

\* a call returned a crop scored with the trend of a fresh cached prediction
C16_Witness ==
    /\ lastReturn.valid /\ lastReturn.outcomes = <<"scored">> /\ faults = 0
    /\ lastReturn.result[1].priceTrend = "falling"
    /\ lastReturn.result[1].advisory.action \in {"SELL_IMMEDIATELY", "MONITOR"}
    /\ requests = <<>>

(***************************************************************************)
(* Properties of the prediction client                                     *)
(***************************************************************************)
IsApiError(msg) == Len(msg) >= 2 /\ msg[1] = "API" /\ msg[2] = "Error"

\* the second request was issued, or is due, 1000 ms after the first attempt failed
RetriedAfterFirstFailure ==
    \/ ppc = "backoff" /\ backoffEnd = failures[1].at + 1000
    \/ Len(requests) >= 2 /\ requests[2].at >= failures[1].at + 1000

\* C4: when the first attempt is answered with a non-success status (429, 5xx), whatever
\* the response body, a second request is issued, and only after a wait of 1000 ms.
C4_RetryOnErrorStatus ==
    (Len(failures) >= 1 /\ IsApiError(failures[1].error)) => RetriedAfterFirstFailure

\* C5: when a success response carries no predicted_price, or a non-numeric one, the
\* failure is retryable: with an attempt left the client waits and sends another request.
C5_RetryOnInvalidPrice ==
    (Len(failures) >= 1 /\ failures[1].error = MsgMissingPrice) => RetriedAfterFirstFailure

\* the local calendar day of the device at the call
LocalDay(a) == (a.clock + a.tzOff) \div HoursPerDay

InvalidArguments(a) ==
    \/ a.cropId \in {NullStr, ""}
    \/ a.targetDate = NoDate
    \/ a.targetDate # BadDate /\ a.targetDate < LocalDay(a)

\* C6: a call with a missing cropId, a missing targetDate or a targetDate earlier than
\* today fails with a validation error, with no request, no backoff wait and no retry.
C6_ValidationFailsFast ==
    (ppc # "idle" /\ InvalidArguments(pargs)) =>
        /\ ppc = "thrown"
        /\ presult \in {MsgMissingCropId, MsgMissingTargetDate, MsgDateMustBe}
        /\ requests = <<>> /\ waits = <<>> /\ failures = <<>>

C6_Witness ==
    /\ ppc = "thrown" /\ presult = MsgDateMustBe /\ requests = <<>>
    /\ pargs.cropId = "c1" /\ pargs.targetDate < LocalDay(pargs)

\* C7: at most 2 upstream requests per call; a wait of 1000 ms x attempt number between
\* attempts only, never after the last; a request without a response within 15 s is
\* failed; and when every attempt failed the call throws the last attempt's error.
C7_RetryBudgetAndBackoff ==
    /\ Len(requests) <= 2
    /\ \A k \in 1..Len(requests) : requests[k].attempt = k
    /\ Len(waits) <= Len(requests) /\ Len(requests) <= Len(waits) + 1
    /\ \A k \in 1..Len(waits) :
        /\ waits[k].after = k /\ waits[k].after < 2
        /\ waits[k].ms = 1000 * k
        /\ waits[k].at = failures[k].at
        /\ k + 1 <= Len(requests) => requests[k + 1].at = waits[k].at + waits[k].ms
    /\ ppc = "backoff" => Len(waits) = Len(requests) /\ pclock <= backoffEnd
    /\ ppc = "request" => pclock - reqStart <= 15000
    /\ \A k \in 1..Len(failures) :
        failures[k].at - requests[failures[k].attempt].at >= 15000
            <=> failures[k].error = MsgTimeout
    /\ ppc = "thrown" /\ failures # <<>> =>
        /\ presult = failures[Len(failures)].error
        /\ failures[Len(failures)].attempt = Len(requests)

C7_Witness ==
    /\ ppc = "thrown" /\ Len(requests) = 2 /\ Len(waits) = 1
    /\ failures[1].error = MsgNetwork /\ presult = MsgTimeout

(***************************************************************************)
(* Properties of the crop filter                                           *)
(***************************************************************************)
\* no row of the catalog passes the hard constraints of the strict filter
StrictSetEmpty(c) ==
    \A i \in 1..Len(c.allCrops) :
        ~StrictKeep(c.allCrops[i], NormaliseFarm(c.farmData, c.clock))

\* C8: for every catalog and farm context, usedFallback is true if and only if the
\* strict filter's result set is empty.
C8_FallbackIffStrictEmpty ==
    fpc = "return" => (ret.usedFallback <=> StrictSetEmpty(call))

\* C8 as amended: the equivalence holds for every non-empty catalog; for an empty
\* catalog the result is no crops with usedFallback false.
C8_FallbackIffStrictEmptyNonEmptyCatalog ==
    fpc = "return" =>
        /\ call.allCrops # <<>> => (ret.usedFallback <=> StrictSetEmpty(call))
        /\ call.allCrops = <<>> => (ret.usedFallback = FALSE /\ ret.crops = <<>>)
        /\ ~ret.usedFallback /\ call.allCrops # <<>> => ret.crops # <<>>

C8_Witness ==
    /\ fpc = "return" /\ Len(call.allCrops) = 2 /\ ret.usedFallback /\ ret.crops # <<>>

\* score a is at least score b
ScoreAtLeast(a, b) == ~ScoreGreater(b, a)

\* returned is the k highest-scoring rows of qualifying (the whole of it when it has
\* fewer), each with its score, in non-increasing order of score
IsTopByScore(returned, qualifying, farm, k) ==
    LET scored == [q \in 1..Len(qualifying) |-> WithScore(qualifying[q], farm)]
    IN  /\ Len(returned) = Min(k, Len(qualifying))
        /\ \A j \in 1..(Len(returned) - 1) :
                ScoreAtLeast(returned[j]._score, returned[j + 1]._score)
        /\ \A j \in 1..Len(returned) :
                Cardinality({i \in 1..Len(returned) : returned[i] = returned[j]})
                    <= Cardinality({q \in 1..Len(scored) : scored[q] = returned[j]})
        /\ \A q \in 1..Len(scored) :
                Cardinality({i \in 1..Len(returned) :
                                ScoreAtLeast(returned[i]._score, scored[q]._score)})
                    = Min(Len(returned),
                          Cardinality({i \in 1..Len(scored) :
                                          ScoreAtLeast(scored[i]._score, scored[q]._score)}))

\* the hard constraints of the strict filter as the specification states them
MeetsHardConstraints(crop, farm) ==
    /\ crop.min_area_required \notin {NullNum, 0}
            => farm.area_in_hectares >= crop.min_area_required
    /\ farm.temperature # NullNum
            => (crop.min_temperature <= farm.temperature
                /\ farm.temperature <= crop.max_temperature)
    /\ (crop.ideal_sowing_months # NullMonths /\ crop.ideal_sowing_months # <<>>
        /\ farm.current_month # 0)
            => SeqHas(crop.ideal_sowing_months, farm.current_month)

\* C17: the strict filter returns exactly the up-to-5 highest-scoring crops, in
\* non-increasing score order, among the crops that meet all hard constraints: area >=
\* the crop's minimum area (when it has one), temperature within [min, max] (when known)
\* and the current month among the crop's ideal sowing months, the month constraint
\* applying only when the month list is present and non-empty.
C17_StrictTopFive ==
    fpc = "return" =>
        LET farm == NormaliseFarm(call.farmData, call.clock)
            meets(c) == MeetsHardConstraints(c, farm)
        IN  IsTopByScore(ret, SelectSeq(call.allCrops, meets), farm, 5)

\* the month constraint of the fallback filter: the crop's ideal sowing months contain
\* the current month; a crop without a month list, or a farm without a month, qualifies
MeetsMonthConstraint(crop, farm) ==
    (crop.ideal_sowing_months # NullMonths /\ farm.current_month # 0)
        => SeqHas(crop.ideal_sowing_months, farm.current_month)

StatusTable(harvestDate, today) ==
    IF harvestDate = NoDate THEN "growing"
    ELSE LET d == harvestDate - today
         IN  CASE d > 7 -> "growing"
               [] d \in 1..7 -> "approaching_harvest"
               [] d \in (-7)..0 -> "ready_for_harvest"
               [] d < -7 -> "post_harvest"

AllFactorsMax(c) ==
    /\ c.weather.ok
    /\ c.crop.optimal_storage_temp_min # NullNum /\ c.crop.optimal_storage_temp_max # NullNum
    /\ (c.weather.temperature < c.crop.optimal_storage_temp_min
        \/ c.weather.temperature > c.crop.optimal_storage_temp_max)
    /\ c.weather.humidity > 75 /\ c.crop.moisture_sensitivity = "High"
    /\ c.crop.shelf_life_days > 0
    /\ (c.clock \div HoursPerDay) - c.harvestDate > c.crop.shelf_life_days
    /\ c.weather.rainfall > 60

\* C10: riskPercentage is always within 0..100 (the raw sum 30+25+40+10 = 105 is clamped
\* to 100), and for a crop that is not pre-harvest the level is Low iff the percentage is
\* <= 30, Moderate iff 31..60, High iff 61..100.
C10_ScoreRangeAndLevel ==
    fpc = "return" =>
        /\ ret.riskPercentage \in 0..100
        /\ AllFactorsMax(call) => ret.riskPercentage = 100 /\ ret.riskLevel = "High"
        /\ ~ret.isPreHarvest =>
            /\ ret.riskLevel = "Low" <=> ret.riskPercentage <= 30
            /\ ret.riskLevel = "Moderate" <=> ret.riskPercentage \in 31..60
            /\ ret.riskLevel = "High" <=> ret.riskPercentage \in 61..100

C10_Witness ==
    /\ fpc = "return" /\ AllFactorsMax(call) /\ SumScores(ret.breakdown) = 105
    /\ ret.riskPercentage = 100

\* days from the harvest date of a call to the day of its clock
DaysSince(c) == (c.clock \div HoursPerDay) - c.harvestDate

\* C11: when the harvest date is in the future (daysSinceHarvest < 0), calculateRisk
\* returns riskPercentage 0, level "Pre-Harvest", an empty breakdown and daysToHarvest =
\* |daysSinceHarvest|, whatever the weather.
C11_PreHarvestShortCircuit ==
    (fpc = "return" /\ DaysSince(call) < 0) =>
        /\ ret.riskPercentage = 0 /\ ret.riskLevel = "Pre-Harvest" /\ ret.isPreHarvest
        /\ ret.breakdown = <<>>
        /\ ret.daysToHarvest = -DaysSince(call)

C11_Witness ==
    /\ fpc = "return" /\ DaysSince(call) = -3 /\ ret.daysToHarvest = 3
    /\ ret.riskLevel = "Pre-Harvest"
    /\ call.weather.ok /\ call.weather.temperature = 35 /\ call.weather.humidity = 76
    /\ call.weather.rainfall = 61 /\ call.crop.moisture_sensitivity = "High"

\* the inputs of the scoring factors, with the defaults the engine uses for missing ones
FactorInputs(c) ==
    [temperature |-> IF c.weather.ok THEN c.weather.temperature ELSE 25,
     humidity |-> IF c.weather.ok THEN c.weather.humidity ELSE 50,
     rainfall |-> IF c.weather.ok THEN c.weather.rainfall ELSE 0,
     tempMin |-> IF c.crop.optimal_storage_temp_min = NullNum THEN 10
                 ELSE c.crop.optimal_storage_temp_min,
     tempMax |-> IF c.crop.optimal_storage_temp_max = NullNum THEN 30
                 ELSE c.crop.optimal_storage_temp_max,
     sensitivity |-> IF c.crop.moisture_sensitivity = NullStr THEN "Medium"
                     ELSE c.crop.moisture_sensitivity,
     shelfLifeDays |-> IF c.crop.shelf_life_days \in {NullNum, 0} THEN 30
                       ELSE c.crop.shelf_life_days,
     daysSinceHarvest |-> DaysSince(c)]

\* C12: for a crop that is not pre-harvest the score is min(100, sum of the breakdown
\* points); Temperature is 30 iff the temperature is outside [min, max]; Humidity is
\* 25/15/5 for High/Medium/Low sensitivity iff humidity > 75; Shelf Life is 40 iff
\* daysSinceHarvest > shelfLifeDays, else 20 iff more than 70% is used; Rainfall is 10 iff
\* rainfall > 60. The breakdown lists Temperature, Humidity, Shelf Life in that order and
\* a Rainfall entry iff rainfall > 60; shelfLifeRemaining = max(0, shelfLifeDays -
\* daysSinceHarvest).
C12_FactorTable ==
    (fpc = "return" /\ DaysSince(call) >= 0) =>
        LET in == FactorInputs(call)
            b == ret.breakdown
        IN  /\ ~ret.isPreHarvest
            /\ ret.riskPercentage = Min(100, SumScores(b))
            /\ Len(b) \in {3, 4}
            /\ b[1].factor = "Temperature" /\ b[2].factor = "Humidity"
            /\ b[3].factor = "Shelf Life"
            /\ b[1].score = 30 <=> (in.temperature < in.tempMin \/ in.temperature > in.tempMax)
            /\ b[1].score \in {0, 30}
            /\ b[2].score = IF in.humidity > 75
                            THEN CASE in.sensitivity = "High" -> 25
                                   [] in.sensitivity = "Medium" -> 15
                                   [] in.sensitivity = "Low" -> 5
                            ELSE 0
            /\ b[3].score = IF in.daysSinceHarvest > in.shelfLifeDays THEN 40
                            ELSE IF in.daysSinceHarvest * 100 > 70 * in.shelfLifeDays THEN 20
                            ELSE 0
            /\ Len(b) = 4 <=> in.rainfall > 60
            /\ Len(b) = 4 => b[4] = [factor |-> "Rainfall", score |-> 10]
            /\ ret.shelfLifeRemaining = Max(0, in.shelfLifeDays - in.daysSinceHarvest)

\* the example of the specification: Temperature +30, Humidity +25, Shelf Life +0,
\* Rainfall +10, total 65, level High
C12_Witness ==
    /\ fpc = "return" /\ ret.riskPercentage = 65 /\ ret.riskLevel = "High"
    /\ Len(ret.breakdown) = 4
    /\ ret.breakdown[1].score = 30 /\ ret.breakdown[2].score = 25
    /\ ret.breakdown[3].score = 0 /\ ret.breakdown[4].score = 10

(***************************************************************************)
(* Properties of the market advisory                                       *)
(***************************************************************************)
\* C13: generateAdvisory is a total decision table over (riskLevel, priceTrend), the
\* trend defaulting to "stable": (High, falling) gives SELL_IMMEDIATELY/critical; High
\* with any other trend SELL_SOON/high; (Low, rising) HOLD/low with the message about
\* rising prices; Low with any other trend HOLD/low with the generic message; Moderate
\* and every other risk level MONITOR/medium.
C13_AdvisoryTable ==
    fpc = "return" =>
        LET level == call.riskLevel
            trend == IF call.priceTrend = Undefined THEN "stable" ELSE call.priceTrend
        IN  /\ (level = "High" /\ trend = "falling") =>
                (ret.action = "SELL_IMMEDIATELY" /\ ret.urgency = "critical")
            /\ (level = "High" /\ trend # "falling") =>
                (ret.action = "SELL_SOON" /\ ret.urgency = "high")
            /\ (level = "Low" /\ trend = "rising") =>
                /\ ret.action = "HOLD" /\ ret.urgency = "low"
                /\ ret.message = "Low spoilage risk and prices are rising"
            /\ (level = "Low" /\ trend # "rising") =>
                /\ ret.action = "HOLD" /\ ret.urgency = "low"
                /\ ret.message = "Storage conditions are good"
            /\ level \notin {"High", "Low"} =>
                (ret.action = "MONITOR" /\ ret.urgency = "medium")

C13_Witness ==
    /\ fpc = "return" /\ call.riskLevel = "High" /\ call.priceTrend = Undefined
    /\ ret.action = "SELL_SOON" /\ ret.urgency = "high"

(***************************************************************************)
(* Properties of the sowing date                                           *)
(***************************************************************************)
\* the ideal month that comes soonest after the current month, going round the year
NearestLaterMonth(months, currentMonth) ==
    CHOOSE m \in {months[k] : k \in 1..Len(months)} :
        \A k \in 1..Len(months) :
            (m - currentMonth) % 12 <= (months[k] - currentMonth) % 12

\* C14: computeSowingDate returns today's date when the current month is an ideal sowing
\* month; otherwise the first day of the cyclically nearest later ideal month, in the
\* current year when that month is greater than the current month and in the next year
\* otherwise; the month of the result is always in 1..12.
C14_SowingDate ==
    (fpc = "return" /\ call.months # NullMonths /\ call.months # <<>>) =>
        LET local == LocalDate(call.instant, call.tzOff)
            next == NearestLaterMonth(call.months, local.month)
        IN  /\ ret.month \in 1..12
            /\ SeqHas(call.months, local.month) => ret = call.instant.date
            /\ ~SeqHas(call.months, local.month) =>
                ret = CalDate(IF next > local.month THEN local.year ELSE local.year + 1,
                              next, 1)

(***************************************************************************)
(* Properties of the combined risk                                         *)
(***************************************************************************)
\* the market risk, in hundredths, of a crop d days after harvest with shelf life s
MarketRiskOf(d, s) == IF d > s THEN 80 ELSE IF d * 10 > 7 * s THEN 40 ELSE 10

\* C20: for a ready_for_harvest or post_harvest crop with a reference record, the
\* market risk is 0.8 when daysSinceHarvest / shelfLifeDays > 1.0, 0.4 when it is
\* > 0.7 and 0.1 otherwise; totalRisk is riskPercentage / 100 plus the market risk;
\* the stored riskLevel is Low iff totalRisk < 1.0, Moderate iff 1.0 <= totalRisk
\* <= 1.5 and High iff totalRisk > 1.5.
C20_CombinedRiskLevel ==
    (fpc = "return" /\ ret.status \in {"ready_for_harvest", "post_harvest"}) =>
        /\ ret.totalRisk = ret.riskPercentage
                           + MarketRiskOf(DaysSince(call), FactorInputs(call).shelfLifeDays)
        /\ ret.riskLevel = "Low" <=> ret.totalRisk < 100
        /\ ret.riskLevel = "Moderate" <=> (100 <= ret.totalRisk /\ ret.totalRisk <= 150)
        /\ ret.riskLevel = "High" <=> ret.totalRisk > 150

C20_Witness ==
    /\ fpc = "return" /\ ret.status = "post_harvest"
    /\ DaysSince(call) = 11 /\ call.crop.shelf_life_days = 10
    /\ ret.riskPercentage = 70 /\ ret.totalRisk = 150 /\ ret.riskLevel = "Moderate"

(***************************************************************************)
(* Properties of the weather engine                                        *)
(***************************************************************************)
WeatherReturned == wlast # NoWeatherCall
UpstreamSucceeded(c) ==
    c.response.sent /\ ~c.response.rejected /\ c.response.ok /\ c.response.current
SameReadings(a, b) ==
    /\ a.temperature = b.temperature
    /\ a.humidity = b.humidity
    /\ a.rainfall = b.rainfall

\* C19: getCurrentWeather always returns a snapshot. When the upstream call
\* succeeded it returns the live snapshot and the cache holds that snapshot.
\* When the upstream call failed or there is no API key, it returns the latest
\* stored live snapshot (same temperature, humidity and rainfall) tagged
\* "cached" if one exists, and the offline seasonal estimate tagged "offline"
\* only if none exists.
C19_ThreeTierFallback ==
    WeatherReturned =>
        /\ wlast.result # NoSnapshot
        /\ UpstreamSucceeded(wlast) =>
            /\ wlast.result = LiveSnapshot(wenv.engine, wlast.response.values)
            /\ wlast.cache = JsonStringify(wlast.result)
        /\ (~UpstreamSucceeded(wlast) /\ wlast.stored # NoSnapshot) =>
            /\ wlast.result.source = "cached"
            /\ SameReadings(wlast.result, wlast.stored)
        /\ (~UpstreamSucceeded(wlast) /\ wlast.stored = NoSnapshot) =>
            wlast.result = offlineFallback(wenv.month)
        /\ wlast.result.source = "offline" => wlast.stored = NoSnapshot

(***************************************************************************)
(* Properties of processSingleCrop                                         *)
(***************************************************************************)
\* the step ends the processing of the current crop of invocation i
CropEnds(i) ==
    /\ inv[i].pc \in {"crop", "lookup", "storage", "prediction"}
    /\ Len(inv'[i].outcomes) = Len(inv[i].outcomes) + 1

\* how it ended, and what was pushed for it
EndTag(i) == inv'[i].outcomes[Len(inv'[i].outcomes)]
EndCrop(i) == inv'[i].updatedCrops[Len(inv'[i].updatedCrops)]
CurrentCrop(i) == inv[i].crops[inv[i].idx]

\* C21: every execution of processSingleCrop that the TTL check does not skip ends by
\* setting the crop's last-run mark to the current time, whichever branch it took
\* (growing, approaching, scored, no matching reference, failed reference lookup); it
\* ends without the mark only when a storage call of its own rejected.
C21_MarkSetOnEveryBranch ==
    [][\A i \in Invs :
          CropEnds(i) =>
              /\ EndTag(i) \in {"skipped", "threw", "growing", "approaching", "no_match",
                                "lookup_failed", "scored", "scored_storage_failed"}
              /\ EndTag(i) \notin {"skipped", "threw"} => lastRun'[CurrentCrop(i).id] = now
              /\ EndTag(i) = "threw" => faults' > faults]_vars

\* one call marked a crop whose reference lookup failed and a crop without a reference
C21_Witness ==
    \E i \in Invs :
        /\ inv[i].outcomes = <<"lookup_failed", "no_match">>
        /\ lastRun["r1"] = now /\ lastRun["r3"] = now

\* the status the current crop of invocation i is classified with in this step
StatusNow(i) == detectHarvestStatus(CurrentCrop(i), now, DeviceTz)
Processed(i) == CropEnds(i) /\ EndTag(i) \notin {"skipped", "threw"}

\* C22: for a crop classified growing, processSingleCrop changes no field except
\* harvestStatus; for a crop classified approaching_harvest it sets a PREPARE advisory
\* with urgency info and the day count (1..7) in the message, and leaves riskPercentage,
\* totalRisk, shelfLifeRemaining and priceTrend as they were; in both cases there is no
\* reference lookup, no prediction-cache lookup and no risk-history write.
C22_GrowingAndApproachingFrame ==
    [][\A i \in Invs :
          /\ (Processed(i) /\ StatusNow(i) = "growing") =>
                /\ EndCrop(i) = [CurrentCrop(i) EXCEPT !.harvestStatus = "growing"]
                /\ inv[i].pc = "crop" /\ riskHistory' = riskHistory
          /\ (Processed(i) /\ StatusNow(i) = "approaching_harvest") =>
                /\ EndCrop(i).harvestStatus = "approaching_harvest"
                /\ EndCrop(i).advisory.action = "PREPARE"
                /\ EndCrop(i).advisory.urgency = "info"
                /\ EndCrop(i).advisory.message
                       = "Harvest approaching in N days. Prepare storage."
                /\ EndCrop(i).advisory.days \in 1..7
                /\ EndCrop(i).advisory.days = CurrentCrop(i).harvestDate - todayStr(now)
                /\ EndCrop(i).riskPercentage = CurrentCrop(i).riskPercentage
                /\ EndCrop(i).totalRisk = CurrentCrop(i).totalRisk
                /\ EndCrop(i).shelfLifeRemaining = CurrentCrop(i).shelfLifeRemaining
                /\ EndCrop(i).priceTrend = CurrentCrop(i).priceTrend
                /\ EndCrop(i).id = CurrentCrop(i).id /\ EndCrop(i).name = CurrentCrop(i).name
                /\ EndCrop(i).harvestDate = CurrentCrop(i).harvestDate
                /\ inv[i].pc = "crop" /\ riskHistory' = riskHistory
          /\ (inv[i].pc = "crop" /\ StatusNow(i) \in {"growing", "approaching_harvest"}) =>
                inv'[i].pc \notin {"lookup", "storage", "prediction"}]_vars

\* a call returned a growing crop and a crop one day from harvest
C22_Witness ==
    /\ lastReturn.valid /\ lastReturn.persisted
    /\ lastReturn.outcomes = <<"approaching", "growing">>
    /\ lastReturn.result[1].advisory.action = "PREPARE"
    /\ lastReturn.result[1].advisory.days = 1
    /\ lastReturn.result[2].harvestStatus = "growing"
    /\ lastReturn.result[2].advisory = NoAdvisory
    /\ riskHistory = <<>>

\* the weather a crop of invocation i is scored with
ScoringWeather(i) == IF inv[i].weather.ok THEN inv[i].weather ELSE DefaultWeather

\* the step computed the risk and kept it (the crop was not replaced by the original)
KeptScore(i) == inv'[i].pc = "prediction" \/ EndTag(i) # "threw"

\* C23: within one run of processAllCrops the weather provider is invoked at most once,
\* before any crop is processed; the snapshot of the run never changes while its crops
\* are processed, and every crop scored in the run is scored with it, or with 25 C /
\* 50 % / 0 mm when the run has none.
C23_WeatherOncePerRun ==
    [][\A i \in Invs :
          /\ inv'[i].weatherCalls <= 1
          /\ (Active(inv[i]) /\ Active(inv'[i])) =>
                /\ inv'[i].weather = inv[i].weather
                /\ inv'[i].weatherCalls = inv[i].weatherCalls
          /\ (inv[i].pc = "storage" /\ inv'[i].pc # "storage") =>
                LET scored == IF inv'[i].pc = "prediction" THEN inv'[i].cur ELSE EndCrop(i)
                    risk == calculateRisk(inv[i].match, CurrentCrop(i).harvestDate,
                                          ScoringWeather(i), now, DeviceTz)
                IN  KeptScore(i) =>
                        /\ scored.riskPercentage = risk.riskPercentage
                        /\ scored.shelfLifeRemaining = risk.shelfLifeRemaining]_vars

\* a call scored two crops with the one snapshot its provider call returned
C23_Witness ==
    /\ lastReturn.valid /\ lastReturn.outcomes = <<"scored", "scored">> /\ faults = 0
    /\ lastReturn.result[1].riskPercentage = 100
    /\ lastReturn.result[2].riskPercentage = 25

(***************************************************************************)
(* Properties of the combined risk and the advisory                        *)
(***************************************************************************)
SellActions == {"SELL_IMMEDIATELY", "SELL_SOON"}
PastShelfLife(c) == DaysSince(c) > FactorInputs(c).shelfLifeDays

\* C24: the combined risk level is High only if the days since harvest exceed the shelf
\* life; so SELL_IMMEDIATELY and SELL_SOON are issued only for crops past their shelf
\* life, and a crop within its shelf life gets no sell advisory even when its spoilage
\* score alone is High (61 or more).
C24_SellOnlyPastShelfLife ==
    (fpc = "return" /\ ret.status \in {"ready_for_harvest", "post_harvest"}) =>
        /\ ret.riskLevel = "High" => PastShelfLife(call)
        /\ ret.advisory.action \in SellActions => PastShelfLife(call)
        /\ (~PastShelfLife(call) /\ ret.riskPercentage >= 61) =>
              ret.advisory.action \in {"MONITOR", "HOLD"}

\* a crop within its shelf life with a spoilage score of 85 and falling prices is told
\* to monitor
C24_Witness ==
    /\ fpc = "return" /\ ret.status = "post_harvest" /\ ~PastShelfLife(call)
    /\ ret.riskPercentage = 85 /\ call.priceTrend = "falling"
    /\ ret.riskLevel = "Moderate" /\ ret.advisory.action = "MONITOR"

(***************************************************************************)
(* Properties of the market flow next to the orchestrator                  *)
(***************************************************************************)
\* C25: with one clock, a whole-number shelf life of at least a day and cached
\* predictions written only by the market flow, no scoring of a crop stores a
\* SELL_IMMEDIATELY advisory: whenever the combined level is High the harvest date is
\* at least 2 days in the past and priceTrend is "stable".
C25_NeverSellImmediately ==
    ret.status \in {"ready_for_harvest", "post_harvest"} =>
        /\ ret.advisory.action # "SELL_IMMEDIATELY"
        /\ ret.riskLevel = "High" =>
              /\ todayStr(ret.at) - call.harvestDate >= 2
              /\ ret.priceTrend = "stable"

(***************************************************************************)
(* Properties of the last-run marks and the stored portfolio               *)
(***************************************************************************)
Quiescent == \A j \in Invs : ~Active(inv[j])

\* C26: whenever no run is in progress and a crop id has a last-run mark younger than
\* the TTL, the stored portfolio entry with that id carries the harvestStatus computed
\* by the run that set the mark (the status of the crop at some time of that run, which
\* ended when the mark was written).
C26_FreshMarkMeansProcessed ==
    Quiescent =>
        \A k \in 1..Len(userCrops) :
            TtlFresh(userCrops[k].id) =>
                \E t \in StartNow..lastRun[userCrops[k].id] :
                    userCrops[k].harvestStatus = detectHarvestStatus(userCrops[k], t, DeviceTz)


\* the step in which invocation i runs the TTL check for its current crop
TtlChecked(i) ==
    /\ inv[i].pc = "crop"
    /\ inv'[i].pc # "crop" \/ inv'[i].idx # inv[i].idx

\* C27: a run that skips a crop because of the TTL check leaves the crop's last-run mark
\* unchanged, and a mark changes only when its crop is processed, so the window is
\* measured from the last processing; a non-forced run that reaches the crop
\* CACHE_TTL_HOURS or more after the mark does not skip it: unless a storage call of its
\* own rejects, it classifies the crop again and processes it.
C27_WindowFromLastProcessing ==
    [][/\ \A i \in Invs :
            (CropEnds(i) /\ EndTag(i) = "skipped") =>
                /\ lastRun' = lastRun
                /\ ~inv[i].force
                /\ now - lastRun[CurrentCrop(i).id] < CACHE_TTL_HOURS
       /\ \A id \in CropIds :
            lastRun'[id] # lastRun[id] =>
                /\ lastRun'[id] = now
                /\ \E i \in Invs : Processed(i) /\ CurrentCrop(i).id = id
       /\ \A i \in Invs :
            (/\ TtlChecked(i) /\ ~inv[i].force
             /\ lastRun[CurrentCrop(i).id] # NoMark
             /\ now - lastRun[CurrentCrop(i).id] >= CACHE_TTL_HOURS) =>
                /\ CropEnds(i) => EndTag(i) # "skipped"
                /\ faults' = faults =>
                      \/ Processed(i) /\ lastRun'[CurrentCrop(i).id] = now
                      \/ /\ inv'[i].pc = "lookup"
                         /\ inv'[i].cur.harvestStatus = StatusNow(i)]_vars

\* a non-forced run processed again, exactly CACHE_TTL_HOURS later, a portfolio whose
\* crops were all marked at the start of the behaviour
C27_Witness ==
    \E i \in Invs :
        /\ ~inv[i].force /\ inv[i].base.valid
        /\ inv[i].base.oldestMark = StartNow
        /\ now = StartNow + CACHE_TTL_HOURS
        /\ inv[i].outcomes # <<>>
        /\ inv[i].outcomes[1] \notin {"skipped", "threw"}
        /\ lastRun[inv[i].crops[1].id] = now


(***************************************************************************)
(* Properties of the harvest status over time                              *)
(***************************************************************************)
\* the place of a status in the life cycle
StageRank(status) ==
    CASE status = "growing" -> 1
      [] status = "approaching_harvest" -> 2
      [] status = "ready_for_harvest" -> 3
      [] status = "post_harvest" -> 4

C29_StoredAdvisoryMatchesStage ==
    \A k \in 1..Len(userCrops) :
        userCrops[k].harvestStatus \in {"ready_for_harvest", "post_harvest"} =>
            /\ userCrops[k].advisory.action # "PREPARE"
            /\ userCrops[k].advisory # NoAdvisory =>
                  userCrops[k].advisory
                      = generateAdvisory(userCrops[k].riskLevel, userCrops[k].priceTrend)


(***************************************************************************)
(* Properties of the whole-portfolio write                                 *)
(***************************************************************************)
\* C30: a write to the stored portfolio made by another flow while an invocation is
\* between its initial read and its final whole-portfolio write is not lost: an entry
\* another flow has changed since the invocation read it is not back at the value the
\* invocation read once the invocation has written the portfolio.
C30_ConcurrentWriteNotLost ==
    [][\A i \in Invs :
          (inv[i].pc = "persist" /\ inv'[i].pc # "persist") =>
              \A k \in 1..Min(Len(userCrops), Len(inv[i].crops)) :
                  userCrops[k] # inv[i].crops[k] =>
                      (k <= Len(userCrops') /\ userCrops'[k] # inv[i].crops[k])]_vars

====
